---- MODULE Spec2Model ----
(***************************************************************************)
(* Command & capability dispatch core of spec-kit (specify_cli.services):  *)
(* CommandRegistry (command_registry.py) and CommandExecutor               *)
(* (command_executor.py).                                                  *)
(*                                                                         *)
(* Python objects are modelled by a heap: a RegisteredCommand is a         *)
(* reference (a natural number) into `heap`; the dict `commands` maps keys *)
(* to references, so two keys holding the same object hold the same        *)
(* reference.  Python dicts keep insertion order, so a dict is a sequence  *)
(* of [key, ref] records.  Python strings are TLA+ strings.                *)
(***************************************************************************)
EXTENDS Integers, Sequences, FiniteSets, TLC

VARIABLES
    commands,     \* CommandRegistry.commands   : ordered dict key -> ref
    categories,   \* CommandRegistry.categories : ordered dict category -> list of names
    heap,         \* the RegisteredCommand objects ever constructed, by reference
    calls,        \* number of invocations of each handler so far
    disabledKeys, \* history: keys disabled and since then neither enabled nor registered again
    last,         \* the last operation performed and what it returned / raised
    agent_classes,  \* AgentRegistry._agent_classes : ordered dict name -> class
    agents,         \* AgentRegistry._agents        : ordered dict name -> instance ref
    agent_metadata, \* AgentRegistry._agent_metadata : ordered dict name -> metadata
    instances,      \* the agent instances stored so far, by reference
    initialized,    \* AgentRegistry._initialized
    discovered_commands, \* CommandDiscovery.discovered_commands : ordered dict name -> command
    schema,                  \* ConfigurationService._schema, loaded by the constructor
    environment,             \* what is installed: the commands package and the agents directory
    integration_initialized, \* OpenCodeIntegration._initialized
    opencode_commands,       \* OpenCodeIntegration._opencode_commands : the names mapped
    opencode_agents,         \* OpenCodeIntegration._opencode_agents : ordered dict name -> definition
    schema_registered,       \* OpenCodeIntegration._schema_registered
    validation_hooks,        \* OpenCodeIntegration._validation_hooks : the hook names
    callback_registry        \* the callback dictionary of the host: the names it holds

registryVars == <<commands, categories, heap, calls, disabledKeys>>

agentVars == <<agent_classes, agents, agent_metadata, instances, initialized>>

discoveryVars == <<discovered_commands>>

integrationVars ==
    <<schema, environment, integration_initialized, opencode_commands, opencode_agents,
      schema_registered, validation_hooks, callback_registry>>

\* what the operations of the command registry and executor leave alone
outsideRegistry == <<agentVars, discoveryVars, integrationVars>>

\* what the operations of the agent registry leave alone
outsideAgents == <<registryVars, discoveryVars, integrationVars>>

vars == <<registryVars, last, agentVars, discoveryVars, integrationVars>>

(***************************************************************************)
(* Bounds                                                                  *)
(***************************************************************************)
MaxRegistrations == 2   \* register_command calls in a run of the registry specification
MaxExecRegistrations == 1   \* register_command calls in a run of the executor specification
MaxCalls == 1           \* handler invocations in a run
MaxListRegistrations == 3   \* register_command calls in a run of the listing specification
MaxTokens == 3          \* argument tokens after the command name in a generated command string
MaxAgentFiles == 2      \* modules in the agents directory scanned by AgentRegistry.initialize
MaxReloads == 1         \* reload_agent calls in a run
MaxDiscoveryEntries == 4   \* registry entries created from discovered commands in a run
MaxSuggestRegistrations == 3   \* register_command calls in a run of the suggestion specification
MaxIntegrationEntries == 2   \* registry entries created by OpenCodeIntegration.initialize in a run

(***************************************************************************)
(* Generic helpers on sequences and strings                                *)
(***************************************************************************)
Range(s) == {s[i] : i \in 1..Len(s)}

\* A local variable: e is evaluated once and body is applied to its value
Local(e, body(_)) == CHOOSE r \in {body(x) : x \in {e}} : TRUE

Char(s, i) == SubSeq(s, i, i)

\* s.startswith(p)
StartsWith(s, p) == Len(p) <= Len(s) /\ SubSeq(s, 1, Len(p)) = p

\* p in s  (substring test)
Contains(s, p) == \E i \in 1..(Len(s) - Len(p) + 1) : SubSeq(s, i, i + Len(p) - 1) = p

\* first index of character c in s, 0 when absent (str.find)
Find(s, c) ==
    IF \E i \in 1..Len(s) : Char(s, i) = c
       THEN CHOOSE i \in 1..Len(s) : Char(s, i) = c /\ \A j \in 1..(i-1) : Char(s, j) # c
       ELSE 0

\* str(n) for a natural number n
RECURSIVE NatStr(_)
NatStr(n) == IF n < 10 THEN Char("0123456789", n + 1) ELSE NatStr(n \div 10) \o Char("0123456789", (n % 10) + 1)

\* number of (possibly overlapping) occurrences of p in s
Occurrences(s, p) == Cardinality({i \in 1..(Len(s) - Len(p) + 1) : SubSeq(s, i, i + Len(p) - 1) = p})

\* sep.join(parts)
RECURSIVE Join(_, _)
Join(parts, sep) ==
    IF Len(parts) = 0 THEN ""
    ELSE IF Len(parts) = 1 THEN parts[1]
    ELSE parts[1] \o sep \o Join(Tail(parts), sep)

(***************************************************************************)
(* Ordered dict (Python dict): a sequence of [key, val] records            *)
(***************************************************************************)
Keys(d) == {d[i].key : i \in 1..Len(d)}

KeyList(d) == [i \in 1..Len(d) |-> d[i].key]

ValueList(d) == [i \in 1..Len(d) |-> d[i].val]

IndexOfKey(d, k) == CHOOSE i \in 1..Len(d) : d[i].key = k

\* d[k]  (k in d)
Lookup(d, k) == d[IndexOfKey(d, k)].val

\* d[k] = v : an existing key keeps its position, a new key goes last
DictSet(d, k, v) ==
    IF k \in Keys(d)
       THEN [i \in 1..Len(d) |-> IF d[i].key = k THEN [key |-> k, val |-> v] ELSE d[i]]
       ELSE Append(d, [key |-> k, val |-> v])

\* del d[k]
DictDel(d, k) == SelectSeq(d, LAMBDA e : e.key # k)

(***************************************************************************)
(* Python values produced by the parser and passed to handlers.            *)
(* t is the runtime type; s the text of a str or float; n the number of an *)
(* int or bool (True is 1, False is 0).                                    *)
(***************************************************************************)
StrVal(x) == [t |-> "str", s |-> x, n |-> 0]

IntVal(k) == [t |-> "int", s |-> "", n |-> k]

FloatVal(x) == [t |-> "float", s |-> x, n |-> 0]

BoolVal(b) == [t |-> "bool", s |-> "", n |-> IF b THEN 1 ELSE 0]

NoneVal == [t |-> "NoneType", s |-> "", n |-> 0]

(***************************************************************************)
(* CommandRegistry                                                         *)
(***************************************************************************)
\* An entry of the heap: RegisteredCommand with its CommandMetadata flattened.
\* created_at is datetime.now() of the construction, a clock that has moved on
\* at every later construction.
NewEntry(d, ref) ==
    [name |-> d.name, description |-> d.description, category |-> d.category,
     aliases |-> d.aliases, parameters |-> d.parameters, tags |-> d.tags,
     requires_project |-> d.requires_project, hidden |-> d.hidden,
     created_at |-> ref, handler |-> d.handler, enabled |-> TRUE]

\* get_command: the reference stored under the key, 0 for None
GetCommand(cmds, name) == IF name \in Keys(cmds) THEN Lookup(cmds, name) ELSE 0

\* the loop of register_command over metadata.aliases
RECURSIVE RegisterAliases(_, _, _)
RegisterAliases(cmds, aliases, ref) ==
    IF Len(aliases) = 0 THEN cmds
    ELSE RegisterAliases(
            IF Head(aliases) \notin Keys(cmds) THEN DictSet(cmds, Head(aliases), ref) ELSE cmds,
            Tail(aliases), ref)

\* register_command, the new value of self.commands
RegisterCommands(cmds, d, ref) == RegisterAliases(DictSet(cmds, d.name, ref), d.aliases, ref)

\* register_command, the new value of self.categories
RegisterCategories(cats, d) ==
    LET c1 == IF d.category \notin Keys(cats) THEN DictSet(cats, d.category, <<>>) ELSE cats
        names == Lookup(c1, d.category)
    IN  IF d.name \notin Range(names) THEN DictSet(c1, d.category, Append(names, d.name)) ELSE c1

\* list.remove(x): drops the first occurrence
ListRemove(l, x) ==
    LET i == CHOOSE j \in 1..Len(l) : l[j] = x /\ \A k \in 1..(j-1) : l[k] # x
    IN  SubSeq(l, 1, i-1) \o SubSeq(l, i+1, Len(l))

\* unregister_command, the new value of self.categories (name is a key of cmds)
UnregisterCategories(cmds, cats, hp, name) ==
    LET cat == hp[Lookup(cmds, name)].category
    IN  IF cat \in Keys(cats) /\ name \in Range(Lookup(cats, cat))
           THEN DictSet(cats, cat, ListRemove(Lookup(cats, cat), name))
           ELSE cats

\* the loop of unregister_command over aliases_to_remove
RECURSIVE RemoveKeys(_, _)
RemoveKeys(cmds, ks) ==
    IF Len(ks) = 0 THEN cmds
    ELSE RemoveKeys(IF Head(ks) \in Keys(cmds) THEN DictDel(cmds, Head(ks)) ELSE cmds, Tail(ks))

\* unregister_command deleting the key it was given only
UnregisterCommandsNameOnly(cmds, hp, name) == RemoveKeys(cmds, <<name>>)

\* unregister_command, the new value of self.commands (name is a key of cmds)
UnregisterCommands(cmds, hp, name) ==
    RemoveKeys(cmds, <<name>> \o hp[Lookup(cmds, name)].aliases)

\* list_commands; category "" stands for None (both are falsy in the test of the code)
\* list_commands without the filter on hidden commands
ListCommandsWithHidden(cmds, hp, category, include_hidden, include_disabled) ==
    LET Keep(e) ==
            /\ hp[e.val].name = e.key
            /\ ~(category # "" /\ hp[e.val].category # category)
            /\ ~(~hp[e.val].enabled /\ ~include_disabled)
    IN  ValueList(SelectSeq(cmds, Keep))

\* list_commands without the test that skips alias keys
ListCommandsAllKeys(cmds, hp, category, include_hidden, include_disabled) ==
    LET Keep(e) ==
            /\ ~(category # "" /\ hp[e.val].category # category)
            /\ ~(hp[e.val].hidden /\ ~include_hidden)
            /\ ~(~hp[e.val].enabled /\ ~include_disabled)
    IN  ValueList(SelectSeq(cmds, Keep))

\* list_commands: the entries returned, in the order of the dictionary
ListCommands(cmds, hp, category, include_hidden, include_disabled) ==
    LET Keep(e) ==
            /\ hp[e.val].name = e.key
            /\ ~(category # "" /\ hp[e.val].category # category)
            /\ ~(hp[e.val].hidden /\ ~include_hidden)
            /\ ~(~hp[e.val].enabled /\ ~include_disabled)
    IN  ValueList(SelectSeq(cmds, Keep))

\* list(values).index(c): the first position holding an object equal to c
\* (RegisteredCommand is a dataclass, == compares the fields)
ValuesIndex(cmds, hp, ref) ==
    CHOOSE i \in 1..Len(cmds) :
        /\ hp[cmds[i].val] = hp[ref]
        /\ \A j \in 1..(i-1) : hp[cmds[j].val] # hp[ref]

\* get_stats
GetStats(cmds, cats, hp) ==
    LET IsCounted(e) == hp[e.val].name = cmds[ValuesIndex(cmds, hp, e.val)].key
        total == Len(SelectSeq(cmds, IsCounted))
        enabled == Len(SelectSeq(cmds, LAMBDA e : hp[e.val].enabled /\ IsCounted(e)))
    IN  [total_commands |-> total,
         enabled_commands |-> enabled,
         disabled_commands |-> total - enabled,
         categories |-> Len(cats),
         commands_per_category |-> [i \in 1..Len(cats) |-> [key |-> cats[i].key, val |-> Len(cats[i].val)]]]

(***************************************************************************)
(* str methods and number literals used by the parser                      *)
(***************************************************************************)
IsSpace(c) == c \in {" ", "\t", "\n", "\r"}

IsDigit(c) == c \in {"0", "1", "2", "3", "4", "5", "6", "7", "8", "9"}

DigitValue(c) ==
    CASE c = "0" -> 0 [] c = "1" -> 1 [] c = "2" -> 2 [] c = "3" -> 3 [] c = "4" -> 4
      [] c = "5" -> 5 [] c = "6" -> 6 [] c = "7" -> 7 [] c = "8" -> 8 [] c = "9" -> 9

UpperLetters == "ABCDEFGHIJKLMNOPQRSTUVWXYZ"

LowerLetters == "abcdefghijklmnopqrstuvwxyz"

LowerChar(c) == IF Find(UpperLetters, c) = 0 THEN c ELSE Char(LowerLetters, Find(UpperLetters, c))

\* str.lower()
RECURSIVE Lower(_)
Lower(s) == IF Len(s) = 0 THEN "" ELSE LowerChar(Head(s)) \o Lower(Tail(s))

RECURSIVE LStrip(_)
LStrip(s) == IF Len(s) > 0 /\ IsSpace(Head(s)) THEN LStrip(Tail(s)) ELSE s

RECURSIVE RStrip(_)
RStrip(s) == IF Len(s) > 0 /\ IsSpace(Char(s, Len(s))) THEN RStrip(SubSeq(s, 1, Len(s) - 1)) ELSE s

\* str.strip()
Strip(s) == RStrip(LStrip(s))

\* digits, single underscores allowed between two digits
IsDigitRun(s) ==
    /\ Len(s) > 0
    /\ IsDigit(Head(s))
    /\ IsDigit(Char(s, Len(s)))
    /\ \A i \in 1..Len(s) : IsDigit(Char(s, i)) \/ Char(s, i) = "_"
    /\ \A i \in 1..(Len(s) - 1) : ~(Char(s, i) = "_" /\ Char(s, i + 1) = "_")

RECURSIVE DigitRunValue(_, _)
DigitRunValue(s, acc) ==
    IF Len(s) = 0 THEN acc
    ELSE IF Head(s) = "_" THEN DigitRunValue(Tail(s), acc)
    ELSE DigitRunValue(Tail(s), 10 * acc + DigitValue(Head(s)))

HasSign(s) == Len(s) > 0 /\ Head(s) \in {"+", "-"}

Unsigned(s) == IF HasSign(s) THEN Tail(s) ELSE s

\* int(value) does not raise ValueError
IsIntLiteral(value) == IsDigitRun(Unsigned(Strip(value)))

\* int(value)
IntOf(value) ==
    LET t == Strip(value)
        m == DigitRunValue(Unsigned(t), 0)
    IN  IF HasSign(t) /\ Head(t) = "-" THEN 0 - m ELSE m

\* float(value) does not raise ValueError, for a value that contains "."
IsFloatLiteral(value) ==
    LET body == Lower(Unsigned(Strip(value)))
        e == Find(body, "e")
        mant == IF e = 0 THEN body ELSE SubSeq(body, 1, e - 1)
        expo == IF e = 0 THEN "" ELSE SubSeq(body, e + 1, Len(body))
        dot == Find(mant, ".")
        ipart == IF dot = 0 THEN mant ELSE SubSeq(mant, 1, dot - 1)
        fpart == IF dot = 0 THEN "" ELSE SubSeq(mant, dot + 1, Len(mant))
    IN  /\ ipart = "" \/ IsDigitRun(ipart)
        /\ fpart = "" \/ IsDigitRun(fpart)
        /\ ipart # "" \/ fpart # ""
        /\ e = 0 \/ IsDigitRun(Unsigned(expo))

(***************************************************************************)
(* shlex.split(s): posix mode, whitespace_split, no comment characters     *)
(***************************************************************************)
\* state is " " (between tokens), "a" (in a word), a quote character or the
\* escape character; esc is the escapedstate of read_token.
RECURSIVE ShlexRun(_, _, _, _, _, _, _)
ShlexRun(s, i, state, esc, tok, quoted, out) ==
    LET emitted == IF tok # "" \/ quoted THEN Append(out, tok) ELSE out
        c == Char(s, i)
    IN
    IF i > Len(s) THEN
        IF state = " " THEN [ok |-> TRUE, parts |-> out, error |-> ""]
        ELSE IF state = "a" THEN [ok |-> TRUE, parts |-> emitted, error |-> ""]
        ELSE IF state = "\\" THEN [ok |-> FALSE, parts |-> <<>>, error |-> "No escaped character"]
        ELSE [ok |-> FALSE, parts |-> <<>>, error |-> "No closing quotation"]
    ELSE IF state = " " THEN
        IF IsSpace(c) THEN ShlexRun(s, i + 1, " ", " ", "", FALSE, out)
        ELSE IF c = "\\" THEN ShlexRun(s, i + 1, c, "a", "", FALSE, out)
        ELSE IF c \in {"'", "\""} THEN ShlexRun(s, i + 1, c, " ", "", FALSE, out)
        ELSE ShlexRun(s, i + 1, "a", " ", c, FALSE, out)
    ELSE IF state \in {"'", "\""} THEN
        IF c = state THEN ShlexRun(s, i + 1, "a", esc, tok, TRUE, out)
        ELSE IF c = "\\" /\ state = "\"" THEN ShlexRun(s, i + 1, c, state, tok, TRUE, out)
        ELSE ShlexRun(s, i + 1, state, esc, tok \o c, TRUE, out)
    ELSE IF state = "\\" THEN
        IF esc \in {"'", "\""} /\ c # state /\ c # esc
           THEN ShlexRun(s, i + 1, esc, esc, tok \o state \o c, quoted, out)
           ELSE ShlexRun(s, i + 1, esc, esc, tok \o c, quoted, out)
    ELSE \* state = "a"
        IF IsSpace(c) THEN ShlexRun(s, i + 1, " ", " ", "", FALSE, emitted)
        ELSE IF c \in {"'", "\""} THEN ShlexRun(s, i + 1, c, esc, tok, quoted, out)
        ELSE IF c = "\\" THEN ShlexRun(s, i + 1, c, "a", tok, quoted, out)
        ELSE ShlexRun(s, i + 1, "a", esc, tok \o c, quoted, out)

\* [ok, parts] or the ValueError raised
ShlexSplit(s) == ShlexRun(s, 1, " ", " ", "", FALSE, <<>>)

(***************************************************************************)
(* CommandExecutor: parsing                                                *)
(***************************************************************************)
\* _parse_value without the boolean test
ParseValueNoBool(value) ==
    IF Find(value, ".") # 0 /\ IsFloatLiteral(value) THEN FloatVal(value)
    ELSE IF Find(value, ".") = 0 /\ IsIntLiteral(value) THEN IntVal(IntOf(value))
    ELSE IF Lower(value) \in {"none", "null"} THEN NoneVal
    ELSE StrVal(value)

\* _parse_value
ParseValue(value) ==
    IF Lower(value) \in {"true", "false"} THEN BoolVal(Lower(value) = "true")
    ELSE IF Find(value, ".") # 0 /\ IsFloatLiteral(value) THEN FloatVal(value)
    ELSE IF Find(value, ".") = 0 /\ IsIntLiteral(value) THEN IntVal(IntOf(value))
    ELSE IF Lower(value) \in {"none", "null"} THEN NoneVal
    ELSE StrVal(value)

\* the while loop of _parse_opencode_command from index i on
RECURSIVE ParseParts(_, _, _, _)
ParseParts(parts, i, args, kwargs) ==
    IF i > Len(parts) THEN [args |-> args, kwargs |-> kwargs]
    ELSE
    LET part == parts[i]
        Step(n, a, kw) == [i |-> n, args |-> a, kwargs |-> kw]
        next ==
            IF StartsWith(part, "--") THEN
                LET flag_part == SubSeq(part, 3, Len(part))
                    eq == Find(flag_part, "=")
                IN  IF eq # 0
                       THEN Step(i + 1, args,
                                 DictSet(kwargs, SubSeq(flag_part, 1, eq - 1),
                                         ParseValue(SubSeq(flag_part, eq + 1, Len(flag_part)))))
                    ELSE IF i + 1 <= Len(parts)
                       THEN Step(i + 2, args, DictSet(kwargs, flag_part, ParseValue(parts[i + 1])))
                    ELSE Step(i + 1, args, DictSet(kwargs, flag_part, BoolVal(TRUE)))
            ELSE IF StartsWith(part, "-") THEN
                LET flag_name == SubSeq(part, 2, Len(part))
                IN  IF i + 1 <= Len(parts) /\ ~StartsWith(parts[i + 1], "-")
                       THEN Step(i + 2, args, DictSet(kwargs, flag_name, ParseValue(parts[i + 1])))
                       ELSE Step(i + 1, args, DictSet(kwargs, flag_name, BoolVal(TRUE)))
            ELSE Step(i + 1, Append(args, ParseValue(part)), kwargs)
    IN  Local(next, LAMBDA n : ParseParts(parts, n.i, n.args, n.kwargs))

\* A parse outcome: kind is "parsed", "none" (None returned) or "raised" (ValueError of shlex)
ParseNone == [kind |-> "none", name |-> "", args |-> <<>>, kwargs |-> <<>>, raw_input |-> "", error |-> ""]

ParseRaised(msg) == [ParseNone EXCEPT !.kind = "raised", !.error = msg]

\* _parse_opencode_command
ParseOpencodeCommand(command_string) ==
    Local(ShlexSplit(SubSeq(command_string, 2, Len(command_string))), LAMBDA sp :
        IF ~sp.ok THEN ParseRaised(sp.error)
        ELSE IF Len(sp.parts) = 0 THEN ParseNone
        ELSE Local(ParseParts(sp.parts, 2, <<>>, <<>>), LAMBDA r :
                [kind |-> "parsed", name |-> sp.parts[1], args |-> r.args, kwargs |-> r.kwargs,
                 raw_input |-> command_string, error |-> ""]))

\* _parse_simple_command
ParseSimpleCommand(command_string) ==
    Local(ShlexSplit(command_string), LAMBDA sp :
        IF ~sp.ok THEN ParseRaised(sp.error)
        ELSE IF Len(sp.parts) = 0 THEN ParseNone
        ELSE [kind |-> "parsed", name |-> sp.parts[1],
              args |-> [i \in 1..(Len(sp.parts) - 1) |-> ParseValue(sp.parts[i + 1])],
              kwargs |-> <<>>, raw_input |-> command_string, error |-> ""])

\* parse_command_string
ParseCommandString(command_string) ==
    IF command_string = "" \/ Strip(command_string) = "" THEN ParseNone
    ELSE Local(Strip(command_string), LAMBDA stripped :
            IF StartsWith(stripped, "/") THEN ParseOpencodeCommand(stripped)
            ELSE ParseSimpleCommand(stripped))

(***************************************************************************)
(* The command strings given to execute_string                             *)
(***************************************************************************)
ExecTexts ==
    { "/echo --msg=hello", "/e hi", "/build", "crash now", "/echo", "", "   ", "/", "/echo \"hi" }

TypedParams == {"s", "r", "i", "f", "b", "l", "d", "a"}

ValueLiterals == {"5", "true", "2.5", "x", "none"}

ValidateTexts ==
    { "/typed --" \o p \o "=" \o v : p \in TypedParams, v \in ValueLiterals }
    \cup { "/deploy", "/deploy x", "/deploy x 1", "/deploy --target=x", "/deploy --target=1 --n=x",
           "/deploy --target=x --n=1", "/deploy x --v=3", "/deploy --v=3", "/deploy --n=2.5 --v=x --target=7" }

(***************************************************************************)
(* Execution context: None, or a dict given as a set of <<key, value>>     *)
(***************************************************************************)
CtxNone == [none |-> TRUE, items |-> {}]

Ctx(items) == [none |-> FALSE, items |-> items]

\* any dict counts as a project context
HasProjectPathAnyDict(ctx) == ~ctx.none

\* `not context or not context.get('project_path')` is false: the context is
\* a non-empty dict whose project_path is truthy ("" is falsy)
HasProjectPath(ctx) ==
    /\ ~ctx.none
    /\ \E kv \in ctx.items : kv[1] = "project_path" /\ kv[2] # ""

(***************************************************************************)
(* Handlers: the callables given to register_command.                      *)
(*   const : takes any arguments and returns "done"                        *)
(*   fail  : takes any arguments and raises Exception("boom")              *)
(*   echo  : def echo(msg): return msg                                     *)
(***************************************************************************)
\* The argument list of a handler call: command.handler is called with the
\* positional and the keyword arguments; hasContext says whether the call
\* carries an execution context, context which one
NoCall == [args |-> <<>>, kwargs |-> <<>>, hasContext |-> FALSE, context |-> CtxNone]

\* a call that hands over the positional arguments only
HandlerCallNoKwargs(args, kwargs) ==
    [args |-> args, kwargs |-> <<>>, hasContext |-> FALSE, context |-> CtxNone]

\* command.handler called with the positional arguments followed by the keyword
\* arguments; the context of execute_command is not among the arguments
HandlerCall(args, kwargs) ==
    [args |-> args, kwargs |-> kwargs, hasContext |-> FALSE, context |-> CtxNone]

Returned(v) == [raised |-> FALSE, message |-> "", value |-> v]

Raised(msg) == [raised |-> TRUE, message |-> msg, value |-> NoneVal]

\* command.handler called with args and kwargs: what the call returns or the message of what it raises
CallHandler(h, args, kwargs) ==
    IF h = "const" THEN Returned(StrVal("done"))
    ELSE IF h = "fail" THEN Raised("boom")
    ELSE \* echo: argument binding of def echo(msg)
        LET Bad(i) == \/ kwargs[i].key # "msg"
                      \/ (kwargs[i].key = "msg" /\ Len(args) >= 1)
        IN  IF \E i \in 1..Len(kwargs) : Bad(i)
               THEN LET i == CHOOSE j \in 1..Len(kwargs) : Bad(j) /\ \A k \in 1..(j-1) : ~Bad(k)
                    IN  IF kwargs[i].key # "msg"
                           THEN Raised("echo() got an unexpected keyword argument '" \o kwargs[i].key \o "'")
                           ELSE Raised("echo() got multiple values for argument 'msg'")
            ELSE IF Len(args) > 1
               THEN Raised("echo() takes 1 positional argument but " \o NatStr(Len(args)) \o " were given")
            ELSE IF Len(args) = 1 THEN Returned(args[1])
            ELSE IF Len(kwargs) = 1 THEN Returned(kwargs[1].val)
            ELSE Raised("echo() missing 1 required positional argument: 'msg'")

(***************************************************************************)
(* CommandRegistry.execute_command                                         *)
(***************************************************************************)
\* the enabled flag is never looked at
CommandDisabledNever(hp, ref) == FALSE

\* `not command.enabled`
CommandDisabled(hp, ref) == ~hp[ref].enabled

\* the wrapper dropping the message of the handler's exception
WrapHandlerFailureNoMessage(name, msg) == "Command '" \o name \o "' execution failed"

\* str(e) of the exception execute_command raises for a handler exception e0
WrapHandlerFailure(name, msg) == "Command '" \o name \o "' execution failed: " \o msg

\* [raised, message, value, invoked, handlerRaised, handlerMessage]: the exception
\* raised or the value returned, whether the handler was called, and what the
\* handler itself raised
RegistryExecute(cmds, hp, name, args, kwargs, ctx) ==
    LET ref == GetCommand(cmds, name)
        early(msg) == [raised |-> TRUE, message |-> msg, value |-> NoneVal, invoked |-> FALSE,
                       handlerRaised |-> FALSE, handlerMessage |-> "", call |-> NoCall]
    IN
    IF ref = 0 THEN early("Command '" \o name \o "' not found")
    ELSE IF CommandDisabled(hp, ref) THEN early("Command '" \o name \o "' is disabled")
    ELSE IF hp[ref].requires_project /\ ~HasProjectPath(ctx)
       THEN early("Command '" \o name \o "' requires a project context")
    ELSE Local(HandlerCall(args, kwargs), LAMBDA c :
         Local(CallHandler(hp[ref].handler, c.args, c.kwargs), LAMBDA r :
            IF r.raised
               THEN [raised |-> TRUE, message |-> WrapHandlerFailure(name, r.message),
                     value |-> NoneVal, invoked |-> TRUE,
                     handlerRaised |-> TRUE, handlerMessage |-> r.message, call |-> c]
               ELSE [raised |-> FALSE, message |-> "", value |-> r.value, invoked |-> TRUE,
                     handlerRaised |-> FALSE, handlerMessage |-> "", call |-> c]))

(***************************************************************************)
(* CommandExecutor: validation and execution                               *)
(***************************************************************************)
\* isinstance(value, type_map[expected_type]); bool is a subclass of int
IsInstance(value, pytype) ==
    IF pytype = "int" THEN value.t \in {"int", "bool"} ELSE value.t = pytype

TypeMapKeys == {"str", "int", "float", "bool", "list", "dict"}

\* _validate_type
ValidateType(value, expected_type) ==
    IF expected_type = "any" THEN TRUE
    ELSE IF expected_type \in TypeMapKeys THEN IsInstance(value, expected_type)
    ELSE TRUE

\* the test of the first loop of validate_command_arguments for one parameter
RequiredMissing(param, parsed) ==
    /\ param.val.required
    /\ param.key \notin Keys(parsed.kwargs)
    /\ Len(parsed.args) = 0

\* the test of the second loop of validate_command_arguments for one keyword
TypeMismatch(kw, parameters) ==
    /\ kw.key \in Keys(parameters)
    /\ ~ValidateType(kw.val, Lookup(parameters, kw.key).type)

MissingMessage(param) == "Required parameter '" \o param.key \o "' is missing"

MismatchMessage(kw, parameters) ==
    "Parameter '" \o kw.key \o "' should be of type " \o Lookup(parameters, kw.key).type

\* validate_command_arguments returning at the first error it finds
ValidateCommandArgumentsFirstOnly(parsed, entry) ==
    IF Len(entry.parameters) = 0 THEN [valid |-> TRUE, error |-> ""]
    ELSE LET missing == SelectSeq(entry.parameters, LAMBDA p : RequiredMissing(p, parsed))
             wrong == SelectSeq(parsed.kwargs, LAMBDA kw : TypeMismatch(kw, entry.parameters))
         IN  IF Len(missing) > 0 THEN [valid |-> FALSE, error |-> MissingMessage(missing[1])]
             ELSE IF Len(wrong) > 0
                THEN [valid |-> FALSE, error |-> MismatchMessage(wrong[1], entry.parameters)]
             ELSE [valid |-> TRUE, error |-> ""]

\* validate_command_arguments: [valid, error]
ValidateCommandArguments(parsed, entry) ==
    IF Len(entry.parameters) = 0 THEN [valid |-> TRUE, error |-> ""]
    ELSE LET missing == SelectSeq(entry.parameters, LAMBDA p : RequiredMissing(p, parsed))
             wrong == SelectSeq(parsed.kwargs, LAMBDA kw : TypeMismatch(kw, entry.parameters))
             errors == [i \in 1..Len(missing) |-> MissingMessage(missing[i])]
                       \o [i \in 1..Len(wrong) |-> MismatchMessage(wrong[i], entry.parameters)]
         IN  IF Len(errors) > 0
                THEN [valid |-> FALSE, error |-> Join(errors, "; ")]
                ELSE [valid |-> TRUE, error |-> ""]

\* CommandResult; error is None (NoneVal) or a str; context is None unless set
NoResult == [success |-> FALSE, output |-> NoneVal, error |-> NoneVal, command_name |-> "", context |-> CtxNone]

Failure(msg, command_name) ==
    [success |-> FALSE, output |-> NoneVal, error |-> StrVal(msg),
     command_name |-> command_name, context |-> CtxNone]

\* execute_parsed_command making the project check before the enabled check
ExecuteParsedCommandProjectFirst(cmds, hp, parsed, ctx) ==
    LET ref == GetCommand(cmds, parsed.name)
        early(msg, stage) == [result |-> Failure(msg, parsed.name), invoked |-> FALSE, stage |-> stage,
                              handlerRaised |-> FALSE, handlerMessage |-> "",
                              call |-> NoCall, handlerValue |-> NoneVal]
    IN
    IF ref = 0 THEN early("Command '" \o parsed.name \o "' not found", "not_found")
    ELSE IF hp[ref].requires_project /\ ~HasProjectPath(ctx)
       THEN early("Command '" \o parsed.name \o "' requires a project context", "project")
    ELSE IF CommandDisabled(hp, ref) THEN early("Command '" \o parsed.name \o "' is disabled", "disabled")
    ELSE Local(ValidateCommandArguments(parsed, hp[ref]), LAMBDA v :
         IF ~v.valid THEN early(v.error, "validation")
         ELSE Local(RegistryExecute(cmds, hp, parsed.name, parsed.args, parsed.kwargs, ctx), LAMBDA r :
              IF r.raised
                 THEN [result |-> Failure("Command execution failed: " \o r.message, parsed.name),
                       invoked |-> r.invoked, stage |-> "handler_raised",
                       handlerRaised |-> r.handlerRaised, handlerMessage |-> r.handlerMessage,
                       call |-> r.call, handlerValue |-> NoneVal]
                 ELSE [result |-> [success |-> TRUE, output |-> r.value, error |-> NoneVal,
                                   command_name |-> parsed.name, context |-> CtxNone],
                       invoked |-> r.invoked, stage |-> "returned",
                       handlerRaised |-> FALSE, handlerMessage |-> "",
                       call |-> r.call, handlerValue |-> r.value]))

\* execute_parsed_command: the CommandResult returned, with the return statement
\* taken (stage) and what happened to the handler
ExecuteParsedCommand(cmds, hp, parsed, ctx) ==
    LET ref == GetCommand(cmds, parsed.name)
        early(msg, stage) == [result |-> Failure(msg, parsed.name), invoked |-> FALSE, stage |-> stage,
                              handlerRaised |-> FALSE, handlerMessage |-> "",
                              call |-> NoCall, handlerValue |-> NoneVal]
    IN
    IF ref = 0 THEN early("Command '" \o parsed.name \o "' not found", "not_found")
    ELSE IF CommandDisabled(hp, ref) THEN early("Command '" \o parsed.name \o "' is disabled", "disabled")
    ELSE IF hp[ref].requires_project /\ ~HasProjectPath(ctx)
       THEN early("Command '" \o parsed.name \o "' requires a project context", "project")
    ELSE Local(ValidateCommandArguments(parsed, hp[ref]), LAMBDA v :
         IF ~v.valid THEN early(v.error, "validation")
         ELSE Local(RegistryExecute(cmds, hp, parsed.name, parsed.args, parsed.kwargs, ctx), LAMBDA r :
              IF r.raised
                 THEN [result |-> Failure("Command execution failed: " \o r.message, parsed.name),
                       invoked |-> r.invoked, stage |-> "handler_raised",
                       handlerRaised |-> r.handlerRaised, handlerMessage |-> r.handlerMessage,
                       call |-> r.call, handlerValue |-> NoneVal]
                 ELSE [result |-> [success |-> TRUE, output |-> r.value, error |-> NoneVal,
                                   command_name |-> parsed.name, context |-> CtxNone],
                       invoked |-> r.invoked, stage |-> "returned",
                       handlerRaised |-> FALSE, handlerMessage |-> "",
                       call |-> r.call, handlerValue |-> r.value]))

\* the try block of execute_string: the CommandResult it returns, or the exception
\* (raised, message) that leaves it
ExecuteStringBody(cmds, hp, command_string, ctx) ==
    Local(ParseCommandString(command_string), LAMBDA parsed :
    IF parsed.kind = "raised"
       THEN [raised |-> TRUE, message |-> parsed.error, result |-> NoResult, invoked |-> FALSE,
             stage |-> "parse_raised", handlerRaised |-> FALSE, handlerMessage |-> "",
             call |-> NoCall, handlerValue |-> NoneVal, parsed |-> parsed]
    ELSE IF parsed.kind = "none"
       THEN [raised |-> FALSE, message |-> "", result |-> Failure("Failed to parse command", ""),
             invoked |-> FALSE, stage |-> "parse_none",
             handlerRaised |-> FALSE, handlerMessage |-> "",
             call |-> NoCall, handlerValue |-> NoneVal, parsed |-> parsed]
    ELSE Local(ExecuteParsedCommand(cmds, hp, parsed, ctx), LAMBDA r :
            [raised |-> FALSE, message |-> "", result |-> [r.result EXCEPT !.context = ctx],
             invoked |-> r.invoked, stage |-> r.stage,
             handlerRaised |-> r.handlerRaised, handlerMessage |-> r.handlerMessage,
             call |-> r.call, handlerValue |-> r.handlerValue, parsed |-> parsed]))

\* execute_string without its except clause
ExecuteStringNoExcept(cmds, hp, command_string, ctx) == ExecuteStringBody(cmds, hp, command_string, ctx)

\* execute_string: the try block with its `except Exception` clause
ExecuteStringResult(cmds, hp, command_string, ctx) ==
    Local(ExecuteStringBody(cmds, hp, command_string, ctx), LAMBDA b :
        IF b.raised
           THEN [b EXCEPT !.raised = FALSE, !.message = "",
                          !.result = [Failure(b.message, "") EXCEPT !.context = ctx]]
           ELSE b)

(***************************************************************************)
(* Inputs of the registry specification                                    *)
(***************************************************************************)
\* the arguments of one register_command call
CommandDef(name, aliases, category, parameters, requires_project, hidden, handler) ==
    [name |-> name, description |-> "Execute " \o name \o " command", category |-> category,
     aliases |-> aliases, parameters |-> parameters, tags |-> <<>>,
     requires_project |-> requires_project, hidden |-> hidden, handler |-> handler]

Names == {"a", "b", "x"}

RegistryCatalog ==
    { CommandDef("a", <<"x">>, "general", <<>>, FALSE, FALSE, "const"),
      CommandDef("a", <<>>, "dev", <<>>, FALSE, FALSE, "const"),
      CommandDef("b", <<"x", "a">>, "general", <<>>, FALSE, FALSE, "const"),
      CommandDef("b", <<>>, "dev", <<>>, FALSE, TRUE, "const"),
      CommandDef("x", <<>>, "dev", <<>>, FALSE, FALSE, "const") }

Handlers == {"const", "echo", "fail"}

(***************************************************************************)
(* The record of the last operation                                        *)
(***************************************************************************)
NoOp ==
    [op |-> "none",      \* the operation
     name |-> "",        \* its name argument
     ok |-> FALSE,       \* its boolean return value
     ref |-> 0,          \* the entry it created, removed or toggled
     oldRef |-> 0,       \* register: the entry stored under the primary name before
     oldKeys |-> {},     \* the keys that resolved to the old / removed entry before
     oldAliases |-> {},  \* register: the aliases of the entry replaced
     stats |-> <<>>,     \* get_stats: the dictionary returned
     listed |-> <<>>,    \* list_commands, search_commands: the entries returned;
                         \* get_command_suggestions: the names returned
     query |-> "",       \* search_commands: query; get_command_suggestions: partial_command
     category |-> "",    \* list_commands, search_commands: category ("" is None)
     include_hidden |-> FALSE,    \* list_commands, search_commands
     include_disabled |-> FALSE,  \* list_commands
     raised |-> FALSE,   \* the operation raised to its caller
     invoked |-> 0,      \* number of handler invocations it made
     text |-> "",        \* execute_string: the input
     args |-> <<>>,      \* positional arguments handed to the registry / handler
     kwargs |-> <<>>,    \* keyword arguments handed to the registry / handler
     ctxIn |-> CtxNone,  \* the context argument
     stage |-> "",       \* execution: the return statement taken
     handler |-> "",     \* execution: the handler of the entry the name resolved to
     handlerRaised |-> FALSE,  \* execution: the handler was called and raised
     handlerMessage |-> "",    \* execution: the message of the exception it raised
     call |-> NoCall,          \* execution: the argument list of the handler call
     handlerValue |-> NoneVal, \* execution: the value the handler returned
     result |-> NoResult,      \* execution: the CommandResult (or value / exception)
     input |-> <<>>,           \* execute_agent: the input_data argument
     envelope |-> <<>>,        \* initialize, execute_agent: the dictionary returned
     count |-> 0,              \* register_discovered_commands: the count returned
     attempts |-> <<>>,        \* register_discovered_commands: the registrations attempted
     available |-> FALSE,      \* OpenCodeIntegration.initialize: opencode_available
     wasInitialized |-> FALSE, \* OpenCodeIntegration: _initialized at the time of the call
     project |-> <<>>,         \* validate_project_config: the directory project_path names
     config |-> <<>>]          \* validate_*_config: the config_data argument

KeysOf(cmds, ref) == {k \in Keys(cmds) : Lookup(cmds, k) = ref}

\* OpenCodeIntegration.__init__ with the ConfigurationService it constructs; the
\* schema file is not beside configuration_service.py, so _load_schema returns
\* the minimal schema; no commands package and no agents directory are installed
OpenCodeIntegrationInit ==
    /\ schema = "minimal"
    /\ environment = [ns |-> [base |-> "missing", modules |-> <<>>], files |-> <<>>, up |-> TRUE]
    /\ integration_initialized = FALSE
    /\ opencode_commands = {}
    /\ opencode_agents = <<>>
    /\ schema_registered = FALSE
    /\ validation_hooks = {}
    /\ callback_registry = {}

\* AgentRegistry.__init__
AgentRegistryInit ==
    /\ agent_classes = <<>>
    /\ agents = <<>>
    /\ agent_metadata = <<>>
    /\ instances = <<>>
    /\ initialized = FALSE

\* CommandDiscovery.__init__
CommandDiscoveryInit == discovered_commands = <<>>

(***************************************************************************)
(* Registry operations                                                     *)
(***************************************************************************)
Init ==
    /\ commands = <<>>
    /\ categories = <<>>
    /\ heap = <<>>
    /\ calls = [h \in Handlers |-> 0]
    /\ disabledKeys = {}
    /\ last = NoOp
    /\ AgentRegistryInit
    /\ CommandDiscoveryInit
    /\ OpenCodeIntegrationInit

RegisterCommand(d, max) ==
    /\ Len(heap) < max
    /\ LET ref == Len(heap) + 1
           old == GetCommand(commands, d.name)
       IN  /\ heap' = Append(heap, NewEntry(d, ref))
           /\ commands' = RegisterCommands(commands, d, ref)
           /\ categories' = RegisterCategories(categories, d)
           /\ disabledKeys' = disabledKeys \ KeysOf(commands', ref)
           /\ last' = [NoOp EXCEPT !.op = "register", !.name = d.name, !.ref = ref,
                                   !.oldRef = old,
                                   !.oldKeys = IF old = 0 THEN {} ELSE KeysOf(commands, old),
                                   !.oldAliases = IF old = 0 THEN {} ELSE Range(heap[old].aliases)]
    /\ UNCHANGED <<calls, outsideRegistry>>

UnregisterCommand(name) ==
    /\ IF name \notin Keys(commands)
          THEN /\ last' = [NoOp EXCEPT !.op = "unregister", !.name = name, !.ok = FALSE]
               /\ UNCHANGED <<commands, categories>>
          ELSE /\ categories' = UnregisterCategories(commands, categories, heap, name)
               /\ commands' = UnregisterCommands(commands, heap, name)
               /\ last' = [NoOp EXCEPT !.op = "unregister", !.name = name, !.ok = TRUE,
                                       !.ref = Lookup(commands, name),
                                       !.oldKeys = KeysOf(commands, Lookup(commands, name))]
    /\ UNCHANGED <<heap, calls, disabledKeys, outsideRegistry>>

SetEnabled(name, value, opname) ==
    LET ref == GetCommand(commands, name)
    IN  /\ IF ref # 0
              THEN heap' = [heap EXCEPT ![ref].enabled = value]
              ELSE UNCHANGED heap
        /\ last' = [NoOp EXCEPT !.op = opname, !.name = name, !.ok = (ref # 0), !.ref = ref]
        /\ disabledKeys' =
              IF ref = 0 THEN disabledKeys
              ELSE IF value THEN disabledKeys \ KeysOf(commands, ref)
              ELSE disabledKeys \cup {name}
        /\ UNCHANGED <<commands, categories, calls, outsideRegistry>>

EnableCommand(name) == SetEnabled(name, TRUE, "enable")

DisableCommand(name) == SetEnabled(name, FALSE, "disable")

GetStatsCall ==
    /\ last' = [NoOp EXCEPT !.op = "get_stats", !.stats = GetStats(commands, categories, heap)]
    /\ UNCHANGED <<commands, categories, heap, calls, disabledKeys, outsideRegistry>>

\* the handler a call of name would reach
HandlerOf(name) ==
    IF GetCommand(commands, name) = 0 THEN "" ELSE heap[GetCommand(commands, name)].handler

TotalCalls == calls["const"] + calls["echo"] + calls["fail"]

CountCall(invoked, h) == IF invoked THEN [calls EXCEPT ![h] = @ + 1] ELSE calls

\* the bookkeeping of one execution: r is what the call did
Executed(opname, text, name, args, kwargs, ctx, r) ==
    /\ r.invoked => TotalCalls < MaxCalls
    /\ calls' = CountCall(r.invoked, HandlerOf(name))
    /\ last' = [NoOp EXCEPT !.op = opname, !.name = name,
                            !.ref = GetCommand(commands, name), !.handler = HandlerOf(name),
                            !.text = text, !.args = args, !.kwargs = kwargs, !.ctxIn = ctx,
                            !.raised = r.raised, !.invoked = IF r.invoked THEN 1 ELSE 0,
                            !.stage = r.stage,
                            !.handlerRaised = r.handlerRaised,
                            !.handlerMessage = r.handlerMessage,
                            !.call = r.call, !.handlerValue = r.handlerValue,
                            !.result = r.result]
    /\ UNCHANGED <<commands, categories, heap, disabledKeys, outsideRegistry>>

\* what registry.execute_command did, in the shape of a CommandResult: the value
\* returned is output, the message of the exception raised is error
ExecuteCommandOutcome(r, name, ctx) ==
    [raised |-> r.raised, invoked |-> r.invoked,
     stage |-> IF r.raised THEN "raised" ELSE "returned",
     handlerRaised |-> r.handlerRaised, handlerMessage |-> r.handlerMessage,
     call |-> r.call, handlerValue |-> r.value,
     result |-> [success |-> ~r.raised, output |-> r.value,
                 error |-> IF r.raised THEN StrVal(r.message) ELSE NoneVal,
                 command_name |-> name, context |-> ctx]]

\* registry.execute_command(name, args, kwargs, context)
ExecuteCommand(name, args, kwargs, ctx) ==
    \E x \in {RegistryExecute(commands, heap, name, args, kwargs, ctx)} :
        \E r \in {ExecuteCommandOutcome(x, name, ctx)} :
            Executed("execute_command", "", name, args, kwargs, ctx, r)

ExecutedString(command_string, ctx, r) ==
    Executed("execute_string", command_string, r.parsed.name, r.parsed.args, r.parsed.kwargs, ctx, r)

\* executor.execute_string(command_string, context)
ExecuteString(command_string, ctx) ==
    \E r \in {ExecuteStringResult(commands, heap, command_string, ctx)} :
        ExecutedString(command_string, ctx, r)

Next ==
    \/ \E d \in RegistryCatalog : RegisterCommand(d, MaxRegistrations)
    \/ \E n \in Names : UnregisterCommand(n)
    \/ \E n \in Names : EnableCommand(n)
    \/ \E n \in Names : DisableCommand(n)
    \/ GetStatsCall

Spec == Init /\ [][Next]_vars

(***************************************************************************)
(* The executor specification: registry changes interleaved with calls of  *)
(* execute_command and execute_string                                      *)
(***************************************************************************)
Param(name, type, required) == [key |-> name, val |-> [type |-> type, required |-> required]]

ExecCatalog ==
    { CommandDef("echo", <<"e">>, "general", <<Param("msg", "str", TRUE)>>, FALSE, FALSE, "echo"),
      CommandDef("build", <<>>, "dev", <<>>, TRUE, FALSE, "const"),
      CommandDef("crash", <<>>, "dev", <<>>, FALSE, TRUE, "fail") }

ExecNames == {"echo", "e", "build", "crash"}

Contexts ==
    { CtxNone,
      Ctx({}),
      Ctx({<<"project_path", "">>, <<"user_id", "u1">>}),
      Ctx({<<"project_path", "/proj">>}) }

NextExec ==
    \/ \E d \in ExecCatalog : RegisterCommand(d, MaxExecRegistrations)
    \/ \E n \in ExecNames : UnregisterCommand(n)
    \/ \E n \in ExecNames : EnableCommand(n)
    \/ \E n \in ExecNames : DisableCommand(n)
    \/ \E n \in ExecNames, ctx \in Contexts : ExecuteCommand(n, <<StrVal("hi")>>, <<>>, ctx)
    \/ \E t \in ExecTexts, ctx \in Contexts : ExecuteString(t, ctx)

SpecExec == Init /\ [][NextExec]_vars

(***************************************************************************)
(* The validation specification: commands with parameter schemas, invoked  *)
(* with arguments of every scalar type                                     *)
(***************************************************************************)
ValidateCatalog ==
    { CommandDef("typed", <<>>, "general",
                 <<Param("s", "string", FALSE), Param("r", "str", FALSE), Param("i", "int", FALSE),
                   Param("f", "float", FALSE), Param("b", "bool", FALSE), Param("l", "list", FALSE),
                   Param("d", "dict", FALSE), Param("a", "any", FALSE)>>,
                 FALSE, FALSE, "const"),
      CommandDef("deploy", <<>>, "dev",
                 <<Param("target", "str", TRUE), Param("n", "int", TRUE), Param("v", "bool", FALSE)>>,
                 FALSE, FALSE, "const") }

NextValidate ==
    \/ \E d \in ValidateCatalog : RegisterCommand(d, MaxExecRegistrations)
    \/ \E n \in {"typed", "deploy"} : UnregisterCommand(n)
    \/ \E t \in ValidateTexts : ExecuteString(t, CtxNone)

SpecValidate == Init /\ [][NextValidate]_vars

(***************************************************************************)
(* Executions that can fail more than one check at once                    *)
(***************************************************************************)
OrderCatalog ==
    { CommandDef("ship", <<>>, "dev", <<Param("env", "str", TRUE)>>, TRUE, FALSE, "fail"),
      CommandDef("ok", <<>>, "dev", <<>>, FALSE, FALSE, "const") }

OrderNames == {"ship", "ok", "nope"}

OrderTexts == {"/ship", "/ship --env=prod", "/ok", "/nope"}

NextOrder ==
    \/ \E d \in OrderCatalog : RegisterCommand(d, MaxExecRegistrations)
    \/ \E n \in {"ship", "ok"} : EnableCommand(n)
    \/ \E n \in {"ship", "ok"} : DisableCommand(n)
    \/ \E n \in OrderNames, ctx \in Contexts : ExecuteCommand(n, <<>>, <<>>, ctx)
    \/ \E t \in OrderTexts, ctx \in Contexts : ExecuteString(t, ctx)

SpecOrder == Init /\ [][NextOrder]_vars

(***************************************************************************)
(* Listing, searching and suggesting commands                              *)
(***************************************************************************)
\* search_commands: the listed entries whose name, description or one of whose
\* tags contains the lower-cased query
SearchCommands(cmds, hp, query, category, include_hidden) ==
    Local(Lower(query), LAMBDA query_lower :
        SelectSeq(ListCommands(cmds, hp, category, include_hidden, FALSE),
                  LAMBDA ref : \/ Contains(Lower(hp[ref].name), query_lower)
                               \/ Contains(Lower(hp[ref].description), query_lower)
                               \/ \E i \in 1..Len(hp[ref].tags) :
                                      Contains(Lower(hp[ref].tags[i]), query_lower)))

\* get_command_suggestions: the names of the listed commands that start with partial_command
\* get_command_suggestions matching the partial input anywhere in the name
GetCommandSuggestionsAnywhere(cmds, hp, partial_command) ==
    IF partial_command = "" THEN <<>>
    ELSE LET listed == ListCommands(cmds, hp, "", FALSE, FALSE)
             command_names == [i \in 1..Len(listed) |-> hp[listed[i]].name]
         IN  SelectSeq(command_names, LAMBDA name : Contains(name, partial_command))

GetCommandSuggestions(cmds, hp, partial_command) ==
    IF partial_command = "" THEN <<>>
    ELSE LET listed == ListCommands(cmds, hp, "", FALSE, FALSE)
             command_names == [i \in 1..Len(listed) |-> hp[listed[i]].name]
         IN  SelectSeq(command_names, LAMBDA name : StartsWith(name, partial_command))

ListCommandsCall(category, include_hidden, include_disabled) ==
    /\ last' = [NoOp EXCEPT !.op = "list_commands", !.category = category,
                            !.include_hidden = include_hidden, !.include_disabled = include_disabled,
                            !.listed = ListCommands(commands, heap, category, include_hidden, include_disabled)]
    /\ UNCHANGED <<commands, categories, heap, calls, disabledKeys, outsideRegistry>>

SearchCommandsCall(query, category, include_hidden) ==
    /\ last' = [NoOp EXCEPT !.op = "search_commands", !.query = query, !.category = category,
                            !.include_hidden = include_hidden,
                            !.listed = SearchCommands(commands, heap, query, category, include_hidden)]
    /\ UNCHANGED <<commands, categories, heap, calls, disabledKeys, outsideRegistry>>

GetCommandSuggestionsCall(partial_command) ==
    /\ last' = [NoOp EXCEPT !.op = "get_command_suggestions", !.query = partial_command,
                            !.listed = GetCommandSuggestions(commands, heap, partial_command)]
    /\ UNCHANGED <<commands, categories, heap, calls, disabledKeys, outsideRegistry>>

\* b with the alias a, a hidden c tagged "secret", a primary a
ListCatalog ==
    { CommandDef("b", <<"a">>, "general", <<>>, FALSE, FALSE, "const"),
      [CommandDef("c", <<>>, "dev", <<>>, FALSE, TRUE, "const") EXCEPT !.tags = <<"secret">>],
      CommandDef("a", <<>>, "dev", <<>>, FALSE, FALSE, "const") }

ListNames == {"a", "b", "c"}

Categories == {"", "dev"}

Queries == {"", "SECRET"}

Partials == {"", "a", "c"}

NextList ==
    \/ \E d \in ListCatalog : RegisterCommand(d, MaxListRegistrations)
    \/ \E n \in {"a", "b"} : UnregisterCommand(n)
    \/ DisableCommand("c")
    \/ \E c \in Categories, ih \in BOOLEAN, id \in BOOLEAN : ListCommandsCall(c, ih, id)
    \/ \E q \in Queries, ih \in BOOLEAN : SearchCommandsCall(q, "", ih)
    \/ \E p \in Partials : GetCommandSuggestionsCall(p)
    \/ \E n \in ListNames : ExecuteString("/" \o n, CtxNone)

SpecList == Init /\ [][NextList]_vars

(***************************************************************************)
(* Suggestions over names that share prefixes                              *)
(***************************************************************************)
SuggestCatalog ==
    { CommandDef("build", <<>>, "dev", <<>>, FALSE, FALSE, "const"),
      CommandDef("bump", <<"bu", "build">>, "dev", <<>>, FALSE, FALSE, "const"),
      CommandDef("burn", <<>>, "dev", <<>>, FALSE, TRUE, "const") }

SuggestPartials == {"", "b", "bu", "bum", "u", "x"}

NextSuggest ==
    \/ \E d \in SuggestCatalog : RegisterCommand(d, MaxSuggestRegistrations)
    \/ \E n \in {"build", "bump"} : DisableCommand(n)
    \/ \E p \in SuggestPartials : GetCommandSuggestionsCall(p)

SpecSuggest == Init /\ [][NextSuggest]_vars

(***************************************************************************)
(* The parser specification: parse_command_string applied to command       *)
(* strings built from argument tokens of every kind                        *)
(***************************************************************************)
\* argument tokens: a word, a long flag without and with '=', a short flag, a
\* quoted substring, a value with a second '=', a number
ParseTokens == {"val", "--verbose", "--n=3", "-f", "\"add login\"", "--t=a=b", "2.5"}

\* scalar literals given as positional arguments and as flag values
CoercionTokens ==
    {"true", "False", "TRUE", "none", "NULL", "3", "007", "+3", "1_000", "2.5", ".5", "2.5e3",
     "abc", "1.2.3", "3x", "1e5", "nan", "a.b"}

RECURSIVE TokenTexts(_)
TokenTexts(n) ==
    IF n = 0 THEN {"/x"}
    ELSE LET shorter == TokenTexts(n - 1)
         IN  shorter \cup {t \o " " \o k : t \in shorter, k \in ParseTokens}

ParseTexts ==
    TokenTexts(MaxTokens)
    \cup {"/x " \o v : v \in CoercionTokens}
    \cup {"/x --k=" \o v : v \in CoercionTokens \cup {""}}
    \cup {"/spec \"add login\" --template=default", "/x --flag=true --n=3 --f=2.5 --s=none",
          "run tests 2", "", "   ", "/", "/x \"a", "/ x y"}

\* a fresh registry and executor, and the command string about to be parsed
InitParse ==
    /\ commands = <<>>
    /\ categories = <<>>
    /\ heap = <<>>
    /\ calls = [h \in Handlers |-> 0]
    /\ disabledKeys = {}
    /\ AgentRegistryInit
    /\ CommandDiscoveryInit
    /\ OpenCodeIntegrationInit
    /\ \E t \in ParseTexts : last = [NoOp EXCEPT !.text = t]

\* executor.parse_command_string(command_string): what it returns (stage "parsed"
\* or "none") or that it raised (stage "raised")
ParseCall(command_string) ==
    /\ last.op = "none"
    /\ \E p \in {ParseCommandString(command_string)} :
          last' = [NoOp EXCEPT !.op = "parse_command_string", !.text = command_string,
                               !.stage = p.kind, !.raised = (p.kind = "raised"),
                               !.name = p.name, !.args = p.args, !.kwargs = p.kwargs]
    /\ UNCHANGED <<commands, categories, heap, calls, disabledKeys, outsideRegistry>>

NextParse == ParseCall(last.text)

SpecParse == InitParse /\ [][NextParse]_vars

(***************************************************************************)
(* Agent registry (agent_registry.py)                                      *)
(***************************************************************************)
\* s.endswith(p)
EndsWith(s, p) == Len(p) <= Len(s) /\ SubSeq(s, Len(s) - Len(p) + 1, Len(s)) = p

\* s.replace(old, new) for a non-empty old
RECURSIVE Replace(_, _, _)
Replace(s, old, new) ==
    IF Len(s) < Len(old) THEN s
    ELSE IF StartsWith(s, old)
         THEN new \o Replace(SubSeq(s, Len(old) + 1, Len(s)), old, new)
         ELSE Char(s, 1) \o Replace(SubSeq(s, 2, Len(s)), old, new)

\* The agent classes a module of the agents directory may define, one per module.
\* class_attr: name is an attribute of the class itself (hasattr(obj, 'name'));
\* otherwise name is set on the instance by the constructor, as the agents of
\* opencode/agents do (SpecBuilderAgent sets self.name = "spec-builder").
\* ctorRaises: the constructor always raises; ctorFlaky: it raises when the
\* resource it needs is not available at the time of the call.
\* execute: what execute(input_data) does: returns a value, raises, or depends on
\* a mutable field of the instance ("stateful": the action "break" leaves the
\* instance in a state in which every later execute raises).
AgentCatalog ==
    { [class_name |-> "EchoAgent", class_attr |-> TRUE, name |-> "echo",
       ctorRaises |-> FALSE, ctorFlaky |-> FALSE, execute |-> "returns"],
      [class_name |-> "FailingAgent", class_attr |-> FALSE, name |-> "failing",
       ctorRaises |-> FALSE, ctorFlaky |-> FALSE, execute |-> "raises"],
      [class_name |-> "StatefulAgent", class_attr |-> FALSE, name |-> "stateful",
       ctorRaises |-> FALSE, ctorFlaky |-> TRUE, execute |-> "stateful"],
      [class_name |-> "BrokenAgent", class_attr |-> FALSE, name |-> "broken",
       ctorRaises |-> TRUE, ctorFlaky |-> FALSE, execute |-> "returns"],
      [class_name |-> "SpecBuilderAgent", class_attr |-> FALSE, name |-> "spec-builder",
       ctorRaises |-> FALSE, ctorFlaky |-> FALSE, execute |-> "returns"] }

ClassOf(class_name) == CHOOSE c \in AgentCatalog : c.class_name = class_name

\* the contents of the agents directory: the classes of its modules in glob order
AgentDirs ==
    UNION { { f \in [1..n -> AgentCatalog] : \A i, j \in 1..n : i # j => f[i] # f[j] }
            : n \in 0..MaxAgentFiles }

AgentNames == {"echo", "failing", "stateful", "broken", "specbuilder", "spec-builder", "nope"}

AgentInputs == { [action |-> "run"], [action |-> "break"] }

\* values of datetime.now().isoformat()
Timestamps == {"2025-01-01T00:00:00", "2025-01-01T00:00:01"}

\* agent_class(): the constructor raises; up tells whether the resource a flaky
\* constructor needs is available at the time of the call
CtorRaises(c, up) == c.ctorRaises \/ (c.ctorFlaky /\ ~up)

\* name.lower().replace('agent', '') of a class name
DerivedName(class_name) == Replace(Lower(class_name), "agent", "")

\* _discover_agents: the name a class is registered under
AgentName(c) ==
    IF c.class_attr THEN c.name ELSE DerivedName(c.class_name)

\* _discover_agents: the class is taken as an agent class and its name can be
\* computed (computing it constructs an instance when the class has a name attribute)
Discoverable(c, up) == EndsWith(c.class_name, "Agent") /\ ~(c.class_attr /\ CtorRaises(c, up))

\* _extract_agent_metadata(agent_class): the name is read from a temporary
\* instance, and derived from the class name when the constructor raises
ExtractAgentMetadata(c, up) ==
    [name |-> IF CtorRaises(c, up) THEN DerivedName(c.class_name) ELSE c.name,
     class_name |-> c.class_name]

\* _discover_agents over the modules of the directory
RECURSIVE DiscoverAgents(_, _, _, _)
DiscoverAgents(files, classes, metadata, up) ==
    IF files = <<>> THEN [classes |-> classes, metadata |-> metadata]
    ELSE IF Discoverable(Head(files), up)
         THEN DiscoverAgents(Tail(files),
                             DictSet(classes, AgentName(Head(files)), Head(files).class_name),
                             DictSet(metadata, AgentName(Head(files)),
                                     ExtractAgentMetadata(Head(files), up)),
                             up)
         ELSE DiscoverAgents(Tail(files), classes, metadata, up)

NewInstance(class_name) == [class |-> class_name, broken |-> FALSE]

\* _initialize_agents: one instance per registered class whose constructor succeeds
RECURSIVE InitializeAgents(_, _, _, _, _)
InitializeAgents(classes, i, ags, insts, up) ==
    IF i > Len(classes) THEN [agents |-> ags, instances |-> insts]
    ELSE IF CtorRaises(ClassOf(classes[i].val), up)
         THEN InitializeAgents(classes, i + 1, ags, insts, up)
         ELSE InitializeAgents(classes, i + 1,
                               DictSet(ags, classes[i].key, Len(insts) + 1),
                               Append(insts, NewInstance(classes[i].val)), up)

\* initialize(), the agents directory holding files
Initialize(files, up) ==
    /\ IF initialized
          THEN /\ last' = [NoOp EXCEPT !.op = "initialize",
                                       !.envelope = [status |-> "already_initialized"]]
               /\ UNCHANGED agentVars
          ELSE \E found \in {DiscoverAgents(files, agent_classes, agent_metadata, up)} :
               \E made \in {InitializeAgents(found.classes, 1, agents, instances, up)} :
                   /\ agent_classes' = found.classes
                   /\ agent_metadata' = found.metadata
                   /\ agents' = made.agents
                   /\ instances' = made.instances
                   /\ initialized' = TRUE
                   /\ last' = [NoOp EXCEPT !.op = "initialize",
                                           !.envelope = [status |-> "success",
                                                         agents_registered |-> Len(found.classes),
                                                         agents_initialized |-> Len(made.agents)]]
    /\ UNCHANGED outsideAgents

\* get_agent(name): the instance reference, 0 for None
GetAgent(ags, name) == IF name \in Keys(ags) THEN Lookup(ags, name) ELSE 0

\* agent.execute(input_data): what the call does to the instance and to its caller
AgentExecute(inst, input_data) ==
    LET returns == [raised |-> FALSE, message |-> "", inst |-> inst,
                    value |-> [t |-> "dict", class |-> inst.class, action |-> input_data.action]]
        raises(m) == [raised |-> TRUE, message |-> m, inst |-> inst, value |-> NoneVal]
        kind == ClassOf(inst.class).execute
    IN  IF kind = "raises" THEN raises("agent exploded")
        ELSE IF kind = "stateful" /\ inst.broken THEN raises("bad state")
        ELSE IF kind = "stateful" /\ input_data.action = "break"
             THEN [returns EXCEPT !.inst = [inst EXCEPT !.broken = TRUE]]
        ELSE returns

\* execute_agent(agent_name, input_data): the dictionary returned, now being the
\* value of datetime.now().isoformat(); r is what agent.execute did
ExecuteAgentEnvelope(agent_name, found, r, now) ==
    IF ~found
       THEN [success |-> FALSE,
             error |-> "Agent \"" \o agent_name \o "\" not found"]
    ELSE IF ~r.raised
       THEN [success |-> TRUE, result |-> r.value, agent |-> agent_name, timestamp |-> now]
       ELSE [success |-> FALSE, error |-> r.message, agent |-> agent_name, timestamp |-> now]

NoExecute == [raised |-> FALSE, message |-> "", inst |-> <<>>, value |-> NoneVal]

\* execute_agent(agent_name, input_data)
ExecuteAgent(agent_name, input_data, now) ==
    /\ \E ref \in {GetAgent(agents, agent_name)} :
       \E r \in {IF ref = 0 THEN NoExecute ELSE AgentExecute(instances[ref], input_data)} :
           /\ instances' = IF ref = 0 THEN instances ELSE [instances EXCEPT ![ref] = r.inst]
           /\ last' = [NoOp EXCEPT !.op = "execute_agent", !.name = agent_name,
                                   !.input = input_data, !.ref = ref,
                                   !.invoked = IF ref = 0 THEN 0 ELSE 1,
                                   !.handlerRaised = r.raised,
                                   !.handlerMessage = r.message,
                                   !.raised = FALSE,
                                   !.envelope = ExecuteAgentEnvelope(agent_name, ref # 0, r, now)]
    /\ UNCHANGED <<agent_classes, agents, agent_metadata, initialized>>
    /\ UNCHANGED outsideAgents

\* get_agent(name)
GetAgentCall(name) ==
    /\ last' = [NoOp EXCEPT !.op = "get_agent", !.name = name, !.ref = GetAgent(agents, name)]
    /\ UNCHANGED agentVars
    /\ UNCHANGED outsideAgents

\* reload_agent(agent_name) that fails in the constructor, the assignment of the
\* new instance coming before the construction has succeeded
ReloadAgentDiscardFirst(classes, ags, insts, agent_name, up) ==
    IF agent_name \notin Keys(classes)
       THEN [agents |-> ags, instances |-> insts,
             envelope |-> [success |-> FALSE,
                           error |-> "Agent \"" \o agent_name \o "\" not found in registry"]]
    ELSE IF CtorRaises(ClassOf(Lookup(classes, agent_name)), up)
       THEN [agents |-> RemoveKeys(ags, <<agent_name>>), instances |-> insts,
             envelope |-> [success |-> FALSE, error |-> "constructor failed",
                           agent |-> agent_name]]
       ELSE [agents |-> DictSet(ags, agent_name, Len(insts) + 1),
             instances |-> Append(insts, NewInstance(Lookup(classes, agent_name))),
             envelope |-> [success |-> TRUE, agent |-> agent_name,
                           message |-> "Agent \"" \o agent_name \o "\" reloaded successfully"]]

\* reload_agent(agent_name): the registry after the call and the dictionary returned
ReloadAgentResult(classes, ags, insts, agent_name, up) ==
    IF agent_name \notin Keys(classes)
       THEN [agents |-> ags, instances |-> insts,
             envelope |-> [success |-> FALSE,
                           error |-> "Agent \"" \o agent_name \o "\" not found in registry"]]
    ELSE IF CtorRaises(ClassOf(Lookup(classes, agent_name)), up)
       THEN [agents |-> ags, instances |-> insts,
             envelope |-> [success |-> FALSE, error |-> "constructor failed",
                           agent |-> agent_name]]
       ELSE [agents |-> DictSet(ags, agent_name, Len(insts) + 1),
             instances |-> Append(insts, NewInstance(Lookup(classes, agent_name))),
             envelope |-> [success |-> TRUE, agent |-> agent_name,
                           message |-> "Agent \"" \o agent_name \o "\" reloaded successfully"]]

\* reload_agent(agent_name)
ReloadAgent(agent_name, up) ==
    /\ Len(instances) < MaxAgentFiles + MaxReloads
    /\ \E r \in {ReloadAgentResult(agent_classes, agents, instances, agent_name, up)} :
           /\ agents' = r.agents
           /\ instances' = r.instances
           /\ last' = [NoOp EXCEPT !.op = "reload_agent", !.name = agent_name,
                                   !.ref = GetAgent(r.agents, agent_name),
                                   !.oldRef = GetAgent(agents, agent_name),
                                   !.envelope = r.envelope]
    /\ UNCHANGED <<agent_classes, agent_metadata, initialized>>
    /\ UNCHANGED outsideAgents

NextAgent ==
    \/ \E files \in AgentDirs, up \in BOOLEAN : Initialize(files, up)
    \/ \E n \in AgentNames, i \in AgentInputs, t \in Timestamps : ExecuteAgent(n, i, t)
    \/ \E n \in AgentNames : GetAgentCall(n)
    \/ \E n \in AgentNames, up \in BOOLEAN : ReloadAgent(n, up)

SpecAgent == Init /\ [][NextAgent]_vars

(***************************************************************************)
(* Command discovery (command_discovery.py)                                *)
(***************************************************************************)
\* A function of a module. command_name: its _command_name attribute, "" when it
\* has none; doc: its docstring (one line); is_command: its _is_command attribute;
\* aliases: its _command_aliases attribute, aliasesIterable telling whether that
\* value can be iterated (a list) or not (for instance the number 5);
\* params: its signature.
Func(func_name, command_name, doc, aliases, aliasesIterable) ==
    [func_name |-> func_name, command_name |-> command_name, doc |-> doc,
     is_command |-> FALSE, aliases |-> aliases, aliasesIterable |-> aliasesIterable,
     params |-> <<>>, handler |-> "const"]

\* A module of the namespace. load: what importing it does: "ok", "missing"
\* (raises ImportError) or "error" (raises another exception, here ValueError);
\* functions: its functions in the order of inspect.getmembers (sorted by name).
ModuleCatalog ==
    << [name |-> "cmds.broken", load |-> "error", functions |-> <<>>],
       [name |-> "cmds.gone", load |-> "missing", functions |-> <<>>],
       [name |-> "cmds.spec_command", load |-> "ok",
        functions |-> << Func("cmd_bad", "", "", <<>>, FALSE),
                         Func("cmd_build_all", "", "", <<"b">>, TRUE),
                         Func("cmd_z", "build-all", "", <<>>, TRUE) >>],
       [name |-> "cmds.util", load |-> "ok",
        functions |-> << Func("helper", "", "", <<>>, TRUE),
                         Func("run_it", "", " Run the command ", <<>>, TRUE) >>] >>

\* the elements of seq whose index is in idxs, in order
RECURSIVE Pick(_, _, _)
Pick(seq, idxs, i) ==
    IF i > Len(seq) THEN <<>>
    ELSE (IF i \in idxs THEN <<seq[i]>> ELSE <<>>) \o Pick(seq, idxs, i + 1)

\* The namespaces discovery is pointed at. base: what importing the base module
\* gives: a "package" (its sub-modules in the order of pkgutil.iter_modules), a
\* single "module", "missing" (ImportError) or "error" (another exception).
Namespaces ==
    { [base |-> "package", modules |-> Pick(ModuleCatalog, idxs, 1)]
        : idxs \in SUBSET (1..Len(ModuleCatalog)) }
    \cup { [base |-> "module", modules |-> <<ModuleCatalog[3]>>],
           [base |-> "missing", modules |-> <<>>],
           [base |-> "error", modules |-> <<>>] }

\* _is_command_function(name, func)
IsCommandFunction(f) ==
    \/ StartsWith(f.func_name, "cmd_") \/ StartsWith(f.func_name, "command_")
    \/ f.doc # "" /\ \E keyword \in {"command", "cmd", "@command"} : Contains(Lower(f.doc), keyword)
    \/ f.is_command

\* _extract_command_name(func_name, func)
ExtractCommandName(f) ==
    IF f.command_name # "" THEN f.command_name
    ELSE Replace(IF StartsWith(f.func_name, "cmd_") THEN SubSeq(f.func_name, 5, Len(f.func_name))
                 ELSE IF StartsWith(f.func_name, "command_")
                      THEN SubSeq(f.func_name, 9, Len(f.func_name))
                 ELSE f.func_name,
                 "_", "-")

\* _extract_description(func)
ExtractDescription(f) ==
    IF f.doc # "" THEN LStrip(RStrip(f.doc)) ELSE "Execute " \o f.func_name \o " command"

CategoryMap ==
    << <<"spec_command", "specification">>, <<"plan_command", "planning">>,
       <<"tasks_command", "task-management">>, <<"research_command", "research">>,
       <<"analyze_command", "analysis">>, <<"migrate_command", "migration">> >>

\* _extract_category(module_name): the first key of the map found in the name
ExtractCategory(module_name) ==
    IF \E i \in 1..Len(CategoryMap) : Contains(module_name, CategoryMap[i][1])
       THEN CategoryMap[CHOOSE i \in 1..Len(CategoryMap) :
                           /\ Contains(module_name, CategoryMap[i][1])
                           /\ \A j \in 1..(i - 1) : ~Contains(module_name, CategoryMap[j][1])][2]
       ELSE "general"

TagMap ==
    << <<"spec", "specification">>, <<"plan", "planning">>, <<"task", "task-management">>,
       <<"research", "research">>, <<"analyze", "analysis">>, <<"migrate", "migration">> >>

\* _extract_tags(func): one tag for each keyword found in the module name of the
\* function (which has no _command_tags attribute)
RECURSIVE ExtractTags(_, _)
ExtractTags(module_name, i) ==
    IF i > Len(TagMap) THEN <<>>
    ELSE (IF Contains(Lower(module_name), TagMap[i][1]) THEN <<TagMap[i][2]>> ELSE <<>>)
         \o ExtractTags(module_name, i + 1)

\* _extract_requires_project(func)
ExtractRequiresProject(f) ==
    \E keyword \in {"project", "workspace", "git"} : Contains(Lower(f.func_name), keyword)

\* _extract_hidden(func)
ExtractHidden(f) ==
    StartsWith(Lower(f.func_name), "_") \/ Contains(Lower(f.func_name), "internal")

\* _extract_parameters(func): one entry for each parameter of the signature
ExtractParameters(f) ==
    [i \in 1..Len(f.params) |->
        [key |-> f.params[i].name,
         val |-> [type |-> IF f.params[i].annotation = "" THEN "any" ELSE f.params[i].annotation,
                  required |-> ~f.params[i].hasDefault]]]

\* _create_command_from_function(name, func, module_name): the DiscoveredCommand;
\* metadata is what register_discovered_commands hands to register_command
CreateCommandFromFunction(f, module_name) ==
    [name |-> ExtractCommandName(f), module_name |-> module_name, func_name |-> f.func_name,
     aliasesIterable |-> f.aliasesIterable,
     metadata |-> [name |-> ExtractCommandName(f), description |-> ExtractDescription(f),
                   category |-> ExtractCategory(module_name), aliases |-> f.aliases,
                   parameters |-> ExtractParameters(f), tags |-> ExtractTags(module_name, 1),
                   requires_project |-> ExtractRequiresProject(f),
                   hidden |-> ExtractHidden(f), handler |-> f.handler]]

\* _discover_commands_in_module(module, module_name)
RECURSIVE DiscoverCommandsInModule(_, _)
DiscoverCommandsInModule(mod, i) ==
    IF i > Len(mod.functions) THEN <<>>
    ELSE (IF IsCommandFunction(mod.functions[i])
             THEN <<CreateCommandFromFunction(mod.functions[i], mod.name)>>
             ELSE <<>>)
         \o DiscoverCommandsInModule(mod, i + 1)

\* discover_commands, the loop over the sub-modules of a package: an ImportError
\* is caught inside the loop, any other exception leaves the loop and the function
RECURSIVE DiscoverPackage(_, _, _)
DiscoverPackage(modules, i, discovered) ==
    IF i > Len(modules) THEN [raised |-> FALSE, message |-> "", discovered |-> discovered]
    ELSE IF modules[i].load = "error"
         THEN [raised |-> TRUE, message |-> "ValueError", discovered |-> discovered]
    ELSE IF modules[i].load = "missing"
         THEN DiscoverPackage(modules, i + 1, discovered)
    ELSE DiscoverPackage(modules, i + 1, discovered \o DiscoverCommandsInModule(modules[i], 1))

\* discover_commands(base_module): the list returned, or the exception that
\* leaves the function (the outer handler catches ImportError only)
DiscoverCommandsResult(ns) ==
    IF ns.base = "missing" THEN [raised |-> FALSE, message |-> "", discovered |-> <<>>]
    ELSE IF ns.base = "error" THEN [raised |-> TRUE, message |-> "RuntimeError", discovered |-> <<>>]
    ELSE IF ns.base = "module"
         THEN [raised |-> FALSE, message |-> "",
               discovered |-> DiscoverCommandsInModule(ns.modules[1], 1)]
    ELSE DiscoverPackage(ns.modules, 1, <<>>)

\* {cmd.name: cmd for cmd in discovered}
RECURSIVE ByName(_, _, _)
ByName(discovered, i, d) ==
    IF i > Len(discovered) THEN d
    ELSE ByName(discovered, i + 1, DictSet(d, discovered[i].name, discovered[i]))

CommandNames(discovered) == [i \in 1..Len(discovered) |-> discovered[i].name]

\* discover_commands(base_module)
DiscoverCommands(ns) ==
    /\ \E r \in {DiscoverCommandsResult(ns)} :
           /\ discovered_commands' =
                  IF r.raised THEN discovered_commands ELSE ByName(r.discovered, 1, <<>>)
           /\ last' = [NoOp EXCEPT !.op = "discover_commands", !.stage = ns.base,
                                   !.raised = r.raised,
                                   !.listed = IF r.raised THEN <<>> ELSE CommandNames(r.discovered)]
    /\ UNCHANGED <<registryVars, agentVars, integrationVars>>

\* clear_discovered_commands()
ClearDiscoveredCommands ==
    /\ discovered_commands' = <<>>
    /\ last' = [NoOp EXCEPT !.op = "clear_discovered_commands"]
    /\ UNCHANGED <<registryVars, agentVars, integrationVars>>

\* register_discovered_commands, one turn of the loop: register_command stores the
\* entry under its primary name and in its category, then walks the aliases,
\* which raises when they cannot be iterated; the count is incremented only when
\* register_command has returned
RegisterDiscovered(st, c) ==
    LET ref == Len(st.heap) + 1
        stored == DictSet(st.commands, c.name, ref)
        cmds == IF c.aliasesIterable THEN RegisterAliases(stored, c.metadata.aliases, ref)
                ELSE stored
    IN  [commands |-> cmds,
         categories |-> RegisterCategories(st.categories, c.metadata),
         heap |-> Append(st.heap, NewEntry(c.metadata, ref)),
         disabledKeys |-> st.disabledKeys \ KeysOf(cmds, ref),
         count |-> IF c.aliasesIterable THEN st.count + 1 ELSE st.count,
         attempts |-> Append(st.attempts, [name |-> c.name, ref |-> ref,
                                           raised |-> ~c.aliasesIterable])]

\* register_discovered_commands, the loop over discovered_commands.values()
RECURSIVE RegisterDiscoveredLoop(_, _, _)
RegisterDiscoveredLoop(disc, i, st) ==
    IF i > Len(disc) THEN st
    ELSE RegisterDiscoveredLoop(disc, i + 1, Local(st, LAMBDA x : RegisterDiscovered(x, disc[i].val)))

RegistryState ==
    [commands |-> commands, categories |-> categories, heap |-> heap,
     disabledKeys |-> disabledKeys, count |-> 0, attempts |-> <<>>]

\* the registry after the loop, st
Registered(st) ==
    /\ commands' = st.commands
    /\ categories' = st.categories
    /\ heap' = st.heap
    /\ disabledKeys' = st.disabledKeys
    /\ UNCHANGED calls

\* register_discovered_commands()
RegisterDiscoveredCommands ==
    /\ Len(heap) + Len(discovered_commands) <= MaxDiscoveryEntries
    /\ \E st \in {RegisterDiscoveredLoop(discovered_commands, 1, RegistryState)} :
           /\ Registered(st)
           /\ last' = [NoOp EXCEPT !.op = "register_discovered_commands",
                                   !.oldRef = Len(heap), !.count = st.count,
                                   !.attempts = st.attempts,
                                   !.listed = CommandNames([i \in 1..Len(discovered_commands)
                                                               |-> discovered_commands[i].val])]
    /\ UNCHANGED <<discovered_commands, agentVars, integrationVars>>

\* discover_and_register(base_module)
DiscoverAndRegister(ns) ==
    \E r \in {DiscoverCommandsResult(ns)} :
        IF r.raised
           THEN /\ discovered_commands' = <<>>
                /\ last' = [NoOp EXCEPT !.op = "discover_and_register", !.stage = ns.base,
                                        !.raised = TRUE]
                /\ UNCHANGED <<registryVars, agentVars, integrationVars>>
           ELSE \E disc \in {ByName(r.discovered, 1, <<>>)} :
                \E st \in {RegisterDiscoveredLoop(disc, 1, RegistryState)} :
                    /\ Len(heap) + Len(disc) <= MaxDiscoveryEntries
                    /\ discovered_commands' = disc
                    /\ Registered(st)
                    /\ last' = [NoOp EXCEPT !.op = "discover_and_register", !.stage = ns.base,
                                            !.oldRef = Len(heap), !.count = st.count,
                                            !.attempts = st.attempts,
                                            !.listed = CommandNames(r.discovered),
                                            !.envelope = [discovered_count |-> Len(r.discovered),
                                                          registered_count |-> st.count,
                                                          commands |-> CommandNames(r.discovered)]]
                    /\ UNCHANGED <<agentVars, integrationVars>>

NextDiscovery ==
    \/ \E ns \in Namespaces : DiscoverCommands(ns)
    \/ ClearDiscoveredCommands
    \/ RegisterDiscoveredCommands
    \/ \E ns \in Namespaces : DiscoverAndRegister(ns)

SpecDiscovery == Init /\ [][NextDiscovery]_vars

(***************************************************************************)
(* OpenCodeIntegration (opencode_integration.py) and the validation of     *)
(* configuration data (configuration_service.py)                           *)
(***************************************************************************)
\* _load_schema: the contents of the schema file beside the module ("file"), or
\* the minimal schema when there is no such file ("minimal")
SchemaKinds == {"minimal", "file"}

\* The definitions of the schema file, as far as validation looks at them here:
\* the keys each kind of configuration requires.
SchemaDefinitions ==
    [opencodeConfig |-> [required |-> {"version"}],
     projectConfig |-> [required |-> {"project_path"}]]

\* the schema validate_configuration_data selects for config_type: the definition
\* of the schema file, the whole schema when it has no such definition
SchemaFor(sch, config_type) ==
    IF sch = "minimal" THEN [required |-> {}]
    ELSE IF config_type = "global" THEN SchemaDefinitions.opencodeConfig
    ELSE SchemaDefinitions.projectConfig

\* config_data: object tells whether the value is a JSON object, keys are its keys
ConfigData ==
    { [object |-> TRUE, keys |-> {"project_path", "spec_kit_enabled", "created_at", "updated_at"}],
      [object |-> TRUE, keys |-> {"version", "theme", "auto_save"}],
      [object |-> TRUE, keys |-> {"spec_kit_enabled"}],
      [object |-> FALSE, keys |-> {}] }

\* jsonschema.validate(instance, schema): the message of the ValidationError it
\* raises, "" when it returns
SchemaViolation(config_data, s) ==
    IF ~config_data.object THEN "[] is not of type 'object'"
    ELSE IF s.required \subseteq config_data.keys THEN ""
    ELSE "'" \o (CHOOSE k \in s.required : k \notin config_data.keys) \o "' is a required property"

\* validate_configuration_data(config_data, config_type)
ValidateConfigurationData(sch, config_data, config_type) ==
    LET msg == SchemaViolation(config_data, SchemaFor(sch, config_type))
    IN  [valid |-> msg = "",
         issues |-> IF msg = "" THEN <<>> ELSE <<"Schema validation error: " \o msg>>,
         config_type |-> config_type]

\* The directories project_path may name: exists is Path(project_path).exists(),
\* spec_kit_dir is (Path(project_path) / ".opencode" / "spec-kit").exists()
ProjectPaths ==
    { [path |-> "/work/app", exists |-> TRUE, spec_kit_dir |-> TRUE],
      [path |-> "/tmp/tmpdir", exists |-> TRUE, spec_kit_dir |-> FALSE],
      [path |-> "/nowhere", exists |-> FALSE, spec_kit_dir |-> FALSE] }

\* _validate_project_config_hook(project_path, config_data)
ValidateProjectConfigHook(sch, project, config_data) ==
    LET checked == ValidateConfigurationData(sch, config_data, "project")
        issues ==
            (IF ~project.exists
                THEN <<"Project path does not exist: " \o project.path>> ELSE <<>>)
            \o (IF ~project.spec_kit_dir
                   THEN <<"Spec-kit directory not found: " \o project.path \o "/.opencode/spec-kit">>
                   ELSE <<>>)
    IN  IF ~checked.valid THEN checked
        ELSE [valid |-> Len(issues) = 0, issues |-> issues,
              config_type |-> "project", project_path |-> project.path]

\* _get_schema_info_hook()
GetSchemaInfoHook(sch) ==
    [title |-> IF sch = "minimal" THEN "Spec-Kit Configuration Schema"
               ELSE "OpenCode Spec-Kit Configuration Schema",
     definitions |-> IF sch = "minimal" THEN {} ELSE DOMAIN SchemaDefinitions,
     supported_config_types |-> {"opencode", "project"}]

HookNames == {"validate_config", "validate_project_config", "get_schema_info"}

\* _register_schema_validation setting the flag and leaving the hooks out
RegisterSchemaValidationFlagOnly(registered, hooks) ==
    [registered |-> TRUE, hooks |-> hooks]

\* _register_schema_validation(): the flag and the hooks after the call; reading
\* config_service._schema cannot fail, the constructor of the service sets it
RegisterSchemaValidation(registered, hooks) ==
    IF registered THEN [registered |-> registered, hooks |-> hooks]
    ELSE [registered |-> TRUE, hooks |-> HookNames]

\* the keys of the dictionary _setup_opencode_commands builds
OpencodeCommandNames ==
    {"help", "commands", "search", "spec", "plan", "tasks", "research", "analyze",
     "migrate", "config", "status"}

\* list_agents(): a copy of each metadata with the status of the agent
ListAgents(metadata, ags) ==
    [i \in 1..Len(metadata) |->
        [name |-> metadata[i].val.name, class_name |-> metadata[i].val.class_name,
         status |-> IF metadata[i].key \in Keys(ags) THEN "active" ELSE "inactive"]]

\* _create_opencode_agent(name, agent_info)
CreateOpencodeAgent(name, agent_info) ==
    [name |-> name, category |-> "spec-kit-agent", metadata |-> agent_info,
     requires_project |-> TRUE, hidden |-> FALSE]

\* _setup_opencode_agents, the loop over list_agents()
RECURSIVE SetupOpencodeAgents(_, _, _)
SetupOpencodeAgents(listing, i, d) ==
    IF i > Len(listing) THEN d
    ELSE SetupOpencodeAgents(listing, i + 1,
                             DictSet(d, listing[i].name,
                                     CreateOpencodeAgent(listing[i].name, listing[i])))

\* the objects initialize() works on
IntegrationState ==
    [discovered |-> discovered_commands, registry |-> RegistryState,
     classes |-> agent_classes, metadata |-> agent_metadata, agents |-> agents,
     instances |-> instances, agent_initialized |-> initialized,
     initialized |-> integration_initialized, commands_map |-> opencode_commands,
     agents_map |-> opencode_agents, registered |-> schema_registered,
     hooks |-> validation_hooks, envelope |-> <<>>]

\* initialize(), the call of discovery.discover_and_register(): the state after it
\* and whether it raised
IntegrationDiscovery(s, ns) ==
    Local(DiscoverCommandsResult(ns), LAMBDA r :
        IF r.raised
           THEN [raised |-> TRUE, message |-> r.message, count |-> 0, registered |-> 0,
                 state |-> [s EXCEPT !.discovered = <<>>]]
           ELSE Local(ByName(r.discovered, 1, <<>>), LAMBDA disc :
                Local(RegisterDiscoveredLoop(disc, 1, [s.registry EXCEPT !.count = 0,
                                                                         !.attempts = <<>>]),
                      LAMBDA st :
                          [raised |-> FALSE, message |-> "", count |-> Len(r.discovered),
                           registered |-> st.count,
                           state |-> [s EXCEPT !.discovered = disc, !.registry = st]])))

\* initialize(), the call of agent_registry.initialize(): the state after it and
\* the dictionary it returns
IntegrationAgents(s, files, up) ==
    IF s.agent_initialized
       THEN [state |-> s, result |-> [status |-> "already_initialized"]]
       ELSE Local(DiscoverAgents(files, s.classes, s.metadata, up), LAMBDA found :
            Local(InitializeAgents(found.classes, 1, s.agents, s.instances, up), LAMBDA made :
                [state |-> [s EXCEPT !.classes = found.classes, !.metadata = found.metadata,
                                     !.agents = made.agents, !.instances = made.instances,
                                     !.agent_initialized = TRUE],
                 result |-> [status |-> "success",
                             agents_discovered |-> Len(found.classes),
                             agents_registered |-> Len(found.classes),
                             agents_initialized |-> Len(made.agents)]]))

\* initialize(), from the set-up of the mappings to the return statement; a is
\* what the agent registry returned, d what discovery returned
IntegrationSetup(s, opencode_available, d, a) ==
    IF ~opencode_available
       THEN \* _setup_standalone_commands is not defined: AttributeError
            [s EXCEPT !.envelope = [status |-> "error",
                                    error |-> "no attribute '_setup_standalone_commands'"]]
       ELSE Local(RegisterSchemaValidation(s.registered, s.hooks), LAMBDA reg :
            Local([s EXCEPT !.commands_map = OpencodeCommandNames,
                            !.agents_map = SetupOpencodeAgents(ListAgents(s.metadata, s.agents),
                                                               1, <<>>),
                            !.registered = reg.registered,
                            !.hooks = reg.hooks,
                            !.initialized = TRUE],
                  LAMBDA t :
                      IF "agents_discovered" \notin DOMAIN a
                         THEN \* KeyError while the dictionary returned is built
                              [t EXCEPT !.envelope = [status |-> "error",
                                                      error |-> "'agents_discovered'"]]
                         ELSE [t EXCEPT !.envelope =
                                  [status |-> "success",
                                   commands_discovered |-> d.count,
                                   commands_registered |-> d.registered,
                                   agents_discovered |-> a.agents_discovered,
                                   agents_registered |-> a.agents_registered,
                                   opencode_commands |-> Cardinality(t.commands_map),
                                   opencode_agents |-> Len(t.agents_map),
                                   standalone_mode |-> FALSE]]))

\* initialize(opencode_available): the state after the call, its envelope being
\* the dictionary returned.  env is what the call finds: env.ns in the commands
\* package, env.files in the agents directory, env.up telling whether flaky
\* constructors succeed.
InitializeIntegration(s, opencode_available, env) ==
    IF s.initialized THEN [s EXCEPT !.envelope = [status |-> "already_initialized"]]
    ELSE Local(IntegrationDiscovery(s, env.ns), LAMBDA d :
             IF d.raised
                THEN [d.state EXCEPT !.envelope = [status |-> "error", error |-> d.message]]
                ELSE Local(IntegrationAgents(d.state, env.files, env.up), LAMBDA a :
                         IntegrationSetup(a.state, opencode_available, d, a.result)))

\* the state s becomes the state of the program
Applied(s) ==
    /\ discovered_commands' = s.discovered
    /\ Registered(s.registry)
    /\ agent_classes' = s.classes
    /\ agent_metadata' = s.metadata
    /\ agents' = s.agents
    /\ instances' = s.instances
    /\ initialized' = s.agent_initialized
    /\ integration_initialized' = s.initialized
    /\ opencode_commands' = s.commands_map
    /\ opencode_agents' = s.agents_map
    /\ schema_registered' = s.registered
    /\ validation_hooks' = s.hooks
    /\ UNCHANGED <<schema, environment>>

\* The environments initialize() may find
IntegrationNamespaces ==
    { [base |-> "module",
       modules |-> << [name |-> "cmds.status", load |-> "ok",
                       functions |-> << Func("cmd_status", "", "", <<>>, TRUE) >>] >>],
      [base |-> "error", modules |-> <<>>] }

IntegrationAgentDirs ==
    { <<ClassOf("EchoAgent")>>,
      <<ClassOf("BrokenAgent"), ClassOf("EchoAgent")>>,
      <<ClassOf("SpecBuilderAgent"), ClassOf("StatefulAgent")>> }

IntegrationEnvironments ==
    [ns : IntegrationNamespaces, files : IntegrationAgentDirs, up : BOOLEAN]

IntegrationAgentNames == {"echo", "broken", "specbuilder", "spec-builder", "nope"}

IntegrationInputs == { [action |-> "run"] }

\* initialize(opencode_available)
IntegrationInitialize(opencode_available) ==
    \E s \in {InitializeIntegration(IntegrationState, opencode_available, environment)} :
        /\ Len(s.registry.heap) <= MaxIntegrationEntries
        /\ Applied(s)
        /\ last' = [NoOp EXCEPT !.op = "integration_initialize",
                                !.available = opencode_available,
                                !.wasInitialized = integration_initialized,
                                !.envelope = s.envelope]
        /\ UNCHANGED callback_registry

\* execute_agent(agent_name, input_data) on the agents ags: the instances after
\* the call and the dictionary returned
ExecuteAgentResult(ags, insts, agent_name, input_data, now) ==
    LET ref == GetAgent(ags, agent_name)
        r == IF ref = 0 THEN NoExecute ELSE AgentExecute(insts[ref], input_data)
    IN  [instances |-> IF ref = 0 THEN insts ELSE [insts EXCEPT ![ref] = r.inst],
         ref |-> ref,
         envelope |-> ExecuteAgentEnvelope(agent_name, ref # 0, r, now)]

\* dict.get(key): None when the key is absent
Get(d, key) == IF key \in DOMAIN d THEN d[key] ELSE NoneVal

\* execute_opencode_agent(agent_name, input_data) once the integration is
\* initialized as s: the state after the call, with the dictionary returned
ExecuteOpencodeAgentResult(s, agent_name, input_data, now) ==
    IF agent_name \in Keys(s.agents_map)
       THEN Local(ExecuteAgentResult(s.agents, s.instances, agent_name, input_data, now),
                  LAMBDA x :
                      [s EXCEPT !.instances = x.instances,
                                !.envelope = [success |-> x.envelope.success,
                                              result |-> Get(x.envelope, "result"),
                                              error |-> Get(x.envelope, "error"),
                                              agent |-> agent_name,
                                              execution_time |-> Get(x.envelope, "timestamp")]])
       ELSE [s EXCEPT !.envelope = [success |-> FALSE,
                                    error |-> "Agent \"" \o agent_name \o "\" not found",
                                    agent |-> agent_name]]

\* execute_opencode_agent(agent_name, input_data): initialize() is called first
\* when the integration is not initialized
ExecuteOpencodeAgent(agent_name, input_data, now) ==
    \E i \in {InitializeIntegration(IntegrationState, TRUE, environment)} :
    \E s \in {IF ~integration_initialized /\ i.envelope.status # "success"
                 THEN [i EXCEPT !.envelope = [success |-> FALSE,
                                              error |-> "Failed to initialize: " \o i.envelope.error]]
                 ELSE ExecuteOpencodeAgentResult(i, agent_name, input_data, now)} :
        /\ Len(s.registry.heap) <= MaxIntegrationEntries
        /\ Applied(s)
        /\ last' = [NoOp EXCEPT !.op = "execute_opencode_agent", !.name = agent_name,
                                !.input = input_data,
                                !.wasInitialized = integration_initialized,
                                !.listed = ListAgents(s.metadata, s.agents),
                                !.envelope = s.envelope]
        /\ UNCHANGED callback_registry

\* get_opencode_agents(): initialize() is called first when the integration is
\* not initialized; the keys of the copy returned
GetOpencodeAgents ==
    \E s \in {InitializeIntegration(IntegrationState, TRUE, environment)} :
        /\ Len(s.registry.heap) <= MaxIntegrationEntries
        /\ Applied(s)
        /\ last' = [NoOp EXCEPT !.op = "get_opencode_agents",
                                !.wasInitialized = integration_initialized,
                                !.listed = KeyList(s.agents_map)]
        /\ UNCHANGED callback_registry

\* agent_registry.list_agents()
ListAgentsCall ==
    /\ last' = [NoOp EXCEPT !.op = "list_agents",
                            !.listed = ListAgents(agent_metadata, agents)]
    /\ UNCHANGED <<registryVars, agentVars, discoveryVars, integrationVars>>

\* the lazy call of _register_schema_validation() the validation operations begin with
SchemaRegistered ==
    \E reg \in {RegisterSchemaValidation(schema_registered, validation_hooks)} :
        /\ schema_registered' = reg.registered
        /\ validation_hooks' = reg.hooks

outsideValidation ==
    <<registryVars, agentVars, discoveryVars, schema, environment,
      integration_initialized, opencode_commands, opencode_agents>>

\* validate_opencode_config(config_data)
ValidateOpencodeConfig(config_data) ==
    /\ SchemaRegistered
    /\ last' = [NoOp EXCEPT !.op = "validate_opencode_config", !.config = config_data,
                            !.envelope = ValidateConfigurationData(schema, config_data, "global")]
    /\ UNCHANGED <<callback_registry, outsideValidation>>

\* validate_project_config(project_path, config_data)
ValidateProjectConfig(project, config_data) ==
    /\ SchemaRegistered
    /\ last' = [NoOp EXCEPT !.op = "validate_project_config", !.project = project,
                            !.config = config_data,
                            !.envelope = ValidateProjectConfigHook(schema, project, config_data)]
    /\ UNCHANGED <<callback_registry, outsideValidation>>

\* get_schema_information()
GetSchemaInformation ==
    /\ SchemaRegistered
    /\ last' = [NoOp EXCEPT !.op = "get_schema_information",
                            !.envelope = GetSchemaInfoHook(schema)]
    /\ UNCHANGED <<callback_registry, outsideValidation>>

\* register_validation_callbacks(callback_registry)
RegisterValidationCallbacks ==
    /\ SchemaRegistered
    /\ callback_registry' = callback_registry \cup validation_hooks'
    /\ last' = [NoOp EXCEPT !.op = "register_validation_callbacks"]
    /\ UNCHANGED outsideValidation

\* get_validation_status()
GetValidationStatus ==
    /\ last' = [NoOp EXCEPT !.op = "get_validation_status",
                            !.envelope = [schema_registered |-> schema_registered,
                                          validation_hooks_available |-> Cardinality(validation_hooks),
                                          schema_info |-> IF schema_registered
                                                             THEN GetSchemaInfoHook(schema)
                                                             ELSE NoneVal]]
    /\ UNCHANGED <<registryVars, agentVars, discoveryVars, integrationVars>>

\* a fresh integration whose configuration service found the schema file or not,
\* in one of the installations
InitIntegration ==
    /\ commands = <<>>
    /\ categories = <<>>
    /\ heap = <<>>
    /\ calls = [h \in Handlers |-> 0]
    /\ disabledKeys = {}
    /\ last = NoOp
    /\ AgentRegistryInit
    /\ CommandDiscoveryInit
    /\ schema \in SchemaKinds
    /\ environment \in IntegrationEnvironments
    /\ integration_initialized = FALSE
    /\ opencode_commands = {}
    /\ opencode_agents = <<>>
    /\ schema_registered = FALSE
    /\ validation_hooks = {}
    /\ callback_registry = {}

NextIntegration ==
    \/ \E av \in BOOLEAN : IntegrationInitialize(av)
    \/ \E n \in IntegrationAgentNames, i \in IntegrationInputs, t \in Timestamps :
          ExecuteOpencodeAgent(n, i, t)
    \/ GetOpencodeAgents
    \/ \E n \in IntegrationAgentNames, i \in IntegrationInputs, t \in Timestamps :
          ExecuteAgent(n, i, t)
    \/ ListAgentsCall
    \/ \E c \in ConfigData : ValidateOpencodeConfig(c)
    \/ \E p \in ProjectPaths, c \in ConfigData : ValidateProjectConfig(p, c)
    \/ GetSchemaInformation
    \/ RegisterValidationCallbacks
    \/ GetValidationStatus

SpecIntegration == InitIntegration /\ [][NextIntegration]_vars

(***************************************************************************)
(* Properties of the registry                                              *)
(***************************************************************************)
\* the entries stored under their own primary name
PrimaryKeys == {k \in Keys(commands) : heap[Lookup(commands, k)].name = k}

\* C1: in every reachable state, for every entry stored under its primary name n,
\* each alias a of its alias list resolves to the very same entry as n (so a
\* toggle of enabled through n is seen through a).
C1_AliasConsistency ==
    \A n \in PrimaryKeys :
        \A a \in Range(heap[Lookup(commands, n)].aliases) :
            GetCommand(commands, a) = GetCommand(commands, n)

\* C2: after register_command of a name that was registered as a primary name, no
\* key resolves to the old entry, the old aliases that are not in the new alias
\* list are absent, and every new alias resolves to the new entry.
C2_ReplacedWholesale ==
    (last.op = "register" /\ last.oldRef # 0 /\ heap[last.oldRef].name = last.name) =>
        /\ KeysOf(commands, last.oldRef) = {}
        /\ \A a \in last.oldAliases \ Range(heap[last.ref].aliases) : a \notin Keys(commands)
        /\ \A a \in Range(heap[last.ref].aliases) : GetCommand(commands, a) = last.ref

\* C3: get_stats counts the primary-only view: total_commands is the length of
\* list_commands(include_hidden=True, include_disabled=True), and enabled_commands
\* and disabled_commands count each listed entry once.
C3_StatsPrimaryOnly ==
    last.op = "get_stats" =>
        LET all == ListCommands(commands, heap, "", TRUE, TRUE)
            on == ListCommands(commands, heap, "", TRUE, FALSE)
        IN  /\ last.stats.total_commands = Len(all)
            /\ last.stats.enabled_commands = Len(on)
            /\ last.stats.disabled_commands = Len(all) - Len(on)

\* C4: after unregister_command(n) returned True for a primary name n, n is absent,
\* every key that resolved to the removed entry before the call is absent, and no
\* key resolves to the removed entry.
C4_UnregisterAtomic ==
    (last.op = "unregister" /\ last.ok /\ heap[last.ref].name = last.name) =>
        /\ GetCommand(commands, last.name) = 0
        /\ \A a \in last.oldKeys : GetCommand(commands, a) = 0
        /\ KeysOf(commands, last.ref) = {}

\* C4 witness: a primary name was unregistered while an alias resolved to its entry
C4_Witness ==
    /\ last.op = "unregister" /\ last.ok /\ heap[last.ref].name = last.name
    /\ \E a \in last.oldKeys : a # last.name /\ a \in Range(heap[last.ref].aliases)

(***************************************************************************)
(* Properties of execution                                                 *)
(***************************************************************************)
ExecOp == last.op \in {"execute_command", "execute_string"}

\* the error string of the last execution ("" when error is None)
ErrorText == last.result.error.s

Failed == ~last.result.success /\ last.result.error.t = "str"

\* C5 as stated: after disable_command(n) succeeded and until n is enabled or
\* registered again, every execution that names n fails with an error mentioning
\* "disabled" and does not invoke the handler.
C5_DisabledUntilEnabledOrRegistered ==
    (ExecOp /\ last.name \in disabledKeys) =>
        /\ Failed
        /\ Contains(ErrorText, "disabled")
        /\ last.invoked = 0

\* C5 amended: after disable_command(n) succeeded and until n is enabled,
\* unregistered or registered again, every execution that names n fails with an
\* error mentioning "disabled"; once n has been unregistered the execution still
\* fails, then with "not found"; in both cases the handler is not invoked.
C5_DisabledRejected ==
    (ExecOp /\ last.name \in disabledKeys) =>
        /\ Failed
        /\ last.invoked = 0
        /\ IF last.name \in Keys(commands)
              THEN Contains(ErrorText, "disabled")
              ELSE Contains(ErrorText, "not found")

\* C5 witness: a registered key that was disabled is executed and rejected
C5_Witness ==
    /\ last.op = "execute_string"
    /\ last.name \in disabledKeys
    /\ last.name \in Keys(commands)
    /\ Contains(ErrorText, "disabled")

\* C6: execute_string never raises to its caller and returns a CommandResult; when
\* the handler raised, success is false and error contains the exception's message.
C6_HandlerExceptionContained ==
    last.op = "execute_string" =>
        /\ ~last.raised
        /\ last.result.success \in BOOLEAN
        /\ last.result.success \/ last.result.error.t = "str"
        /\ last.handlerRaised =>
              /\ Failed
              /\ Contains(ErrorText, last.handlerMessage)

\* C6 witness: the handler was invoked by execute_string and raised "boom"
C6_Witness ==
    /\ last.op = "execute_string"
    /\ last.invoked = 1
    /\ last.handlerRaised
    /\ last.handlerMessage = "boom"

\* the context is a dict that has a project_path key
ProjectPathKeyPresent(ctx) == ~ctx.none /\ \E kv \in ctx.items : kv[1] = "project_path"

\* the context is a dict whose project_path is a non-empty value
\* (stated apart from HasProjectPath, which is the test the code makes)
ProjectPathGiven(ctx) == ~ctx.none /\ \E kv \in ctx.items : kv[1] = "project_path" /\ kv[2] # ""

RequiresProject == ExecOp /\ last.ref # 0 /\ heap[last.ref].requires_project

\* C7 as stated: a command registered with requires_project=true and invoked with a
\* context that is absent or lacks project_path fails with "requires a project
\* context" and its handler is not called; with project_path present the
\* requirement does not block the call.  (A context whose project_path is empty
\* is taken to be neither: the statement is not held to say anything about it.)
C7_ProjectRequiredAsStated ==
    RequiresProject =>
        /\ ~ProjectPathKeyPresent(last.ctxIn) =>
              (Failed /\ Contains(ErrorText, "requires a project context") /\ last.invoked = 0)
        /\ ProjectPathGiven(last.ctxIn) => ~Contains(ErrorText, "requires a project context")

\* C7 amended: an enabled command registered with requires_project=true and invoked
\* with a context that is absent or has no non-empty project_path fails with
\* "requires a project context" and its handler is not called; with a non-empty
\* project_path the requirement does not block the call.
C7_ProjectRequired ==
    (RequiresProject /\ heap[last.ref].enabled) =>
        /\ ~ProjectPathGiven(last.ctxIn) =>
              (Failed /\ Contains(ErrorText, "requires a project context") /\ last.invoked = 0)
        /\ ProjectPathGiven(last.ctxIn) => ~Contains(ErrorText, "requires a project context")

\* C7 witness: an enabled command that requires a project is executed with a dict
\* that has no project_path and is rejected
C7_Witness ==
    /\ RequiresProject /\ heap[last.ref].enabled
    /\ last.op = "execute_string"
    /\ ~last.ctxIn.none /\ ~ProjectPathKeyPresent(last.ctxIn)
    /\ Contains(ErrorText, "requires a project context")

(***************************************************************************)
(* Properties of argument validation                                       *)
(***************************************************************************)
\* validate_command_arguments was reached by the last execute_string
Validated == last.op = "execute_string" /\ last.stage \in {"validation", "returned", "handler_raised"}

Rejected == last.op = "execute_string" /\ last.stage = "validation"

LastParsed == [args |-> last.args, kwargs |-> last.kwargs]

LastParameters == heap[last.ref].parameters

NamesMissing(name) == Contains(ErrorText, "Required parameter '" \o name \o "' is missing")

NamesMismatch(name) == Contains(ErrorText, "Parameter '" \o name \o "' should be of type")

RuntimeTypeOf(declared) == IF declared = "string" THEN "str" ELSE declared

DeclaredTypes == {"string", "int", "float", "bool", "list", "dict"}

\* C9: a keyword argument named in the schema with declared type T among string,
\* int, float, bool, list, dict is rejected by validation whenever the runtime type
\* of its coerced value is not T; a declared type "any" accepts every value.
C9_TypeMismatchRejected ==
    Validated =>
        \A kw \in Range(last.kwargs) :
            kw.key \in Keys(LastParameters) =>
                LET T == Lookup(LastParameters, kw.key).type
                IN  /\ (T \in DeclaredTypes /\ kw.val.t # RuntimeTypeOf(T)) =>
                          (Rejected /\ NamesMismatch(kw.key))
                    /\ T = "any" => ~NamesMismatch(kw.key)

\* the required parameters of the schema that no keyword names, in schema order
UnnamedRequired ==
    SelectSeq(LastParameters, LAMBDA p : p.val.required /\ p.key \notin Keys(last.kwargs))

\* C10: an invocation that supplies fewer positionals than there are required
\* parameters not named by a keyword is rejected by validation, and the error names
\* each required parameter left uncovered (the positionals cover the first ones).
C10_RequiredCovered ==
    (Validated /\ Len(last.args) < Len(UnnamedRequired)) =>
        /\ Rejected
        /\ \A i \in (Len(last.args) + 1)..Len(UnnamedRequired) : NamesMissing(UnnamedRequired[i].key)

(***************************************************************************)
(* Properties of the success path of execute_string                        *)
(***************************************************************************)
\* the last operation is an execute_string whose command exists, is enabled, has
\* its project requirement met and passes validation
Eligible ==
    /\ last.op = "execute_string"
    /\ last.ref # 0
    /\ heap[last.ref].enabled
    /\ heap[last.ref].requires_project => ProjectPathGiven(last.ctxIn)
    /\ ValidateCommandArguments(LastParsed, heap[last.ref]).valid

\* the handler was called once with the parsed positional arguments in order
\* followed by the parsed keyword arguments
InvokedWithParsedArguments ==
    /\ last.invoked = 1
    /\ last.call.args = last.args
    /\ last.call.kwargs = last.kwargs

SucceededWithHandlerValue ==
    /\ last.result.success
    /\ last.result.output = last.handlerValue
    /\ last.result.error = NoneVal

\* the scenario of echo registered with the required parameter msg
EchoScenario ==
    (last.op = "execute_string" /\ last.ref # 0 /\ heap[last.ref].enabled /\ last.handler = "echo") =>
        /\ last.text = "/echo --msg=hello" => last.result.success /\ last.result.output = StrVal("hello")
        /\ last.text = "/echo" => Failed /\ Contains(ErrorText, "msg")

\* C11 as stated: when the named command exists, is enabled, has its project
\* requirement met and passes validation, execute_string invokes its handler exactly
\* once with the parsed positional arguments followed by the keyword arguments and
\* returns success=true with output equal to the handler's return value and no error.
C11_SuccessPathAsStated ==
    /\ Eligible => InvokedWithParsedArguments /\ SucceededWithHandlerValue
    /\ EchoScenario

\* C11 amended: under the same conditions the handler is invoked exactly once with
\* the parsed positional arguments followed by the keyword arguments; when it
\* returns, the result is success=true with output equal to the value returned and
\* no error; when it raises, the result is a failure.
C11_SuccessPath ==
    /\ Eligible =>
          /\ InvokedWithParsedArguments
          /\ ~last.handlerRaised => SucceededWithHandlerValue
          /\ last.handlerRaised => Failed
    /\ EchoScenario

\* C11 witness: '/echo --msg=hello' called echo(msg="hello") once and returned "hello"
C11_Witness ==
    /\ Eligible
    /\ last.text = "/echo --msg=hello"
    /\ last.invoked = 1
    /\ last.call.kwargs = <<[key |-> "msg", val |-> StrVal("hello")]>>
    /\ last.result.success
    /\ last.result.output = StrVal("hello")

(***************************************************************************)
(* Properties of the parser                                                *)
(***************************************************************************)
Parsed == last.op = "parse_command_string" /\ last.stage = "parsed"

\* the shell tokens of the prefixed text parsed last, the command name first
LastTokens == ShlexSplit(Tail(Strip(last.text))).parts

Prefixed == Parsed /\ StartsWith(Strip(last.text), "/")

LooksLikeFlag(token) == StartsWith(token, "-")

\* a '--key' token without '='
IsBareLongFlag(token) == StartsWith(token, "--") /\ Find(token, "=") = 0

\* a '--key=value' token
IsKeyValueFlag(token) == StartsWith(token, "--") /\ Find(token, "=") # 0

\* the key a flag token names
FlagKey(token) ==
    IF IsKeyValueFlag(token) THEN SubSeq(token, 3, Find(token, "=") - 1)
    ELSE IF StartsWith(token, "--") THEN SubSeq(token, 3, Len(token))
    ELSE SubSeq(token, 2, Len(token))

FlagValue(token) == SubSeq(token, Find(token, "=") + 1, Len(token))

HasKeyword(key, value) == key \in Keys(last.kwargs) /\ Lookup(last.kwargs, key) = value

\* C12: a '--key' token without '=' that is the first argument token takes the
\* following token as its value only if that token exists and does not look like a
\* flag; otherwise key is true and the following token is classified on its own
\* ('/x --verbose --n=3' yields verbose=true and n=3).
C12_BareFlagValue ==
    (Prefixed /\ Len(LastTokens) >= 2 /\ IsBareLongFlag(LastTokens[2])) =>
        LET key == FlagKey(LastTokens[2])
            following == LastTokens[3]
        IN  IF Len(LastTokens) >= 3 /\ ~LooksLikeFlag(following)
               THEN Len(LastTokens) = 3 => HasKeyword(key, ParseValue(following))
               ELSE /\ Len(LastTokens) <= 3 => HasKeyword(key, BoolVal(TRUE))
                    /\ Len(LastTokens) >= 3 => FlagKey(following) \in Keys(last.kwargs)
                    /\ last.text = "/x --verbose --n=3" =>
                          HasKeyword("verbose", BoolVal(TRUE)) /\ HasKeyword("n", IntVal(3))

\* a flag token that carries no value of its own: '--key' or '-f'
IsBareFlag(token) == LooksLikeFlag(token) /\ ~IsKeyValueFlag(token)

\* the positions of the non-flag tokens that are not the value of the flag before them
PositionalIndexes ==
    SelectSeq([i \in 1..Len(LastTokens) |-> i],
              LAMBDA i : /\ i >= 2
                         /\ ~LooksLikeFlag(LastTokens[i])
                         /\ ~(i > 2 /\ IsBareFlag(LastTokens[i - 1])))

ExpectedPositionals == [j \in 1..Len(PositionalIndexes) |-> ParseValue(LastTokens[PositionalIndexes[j]])]

\* no later flag token names the same key
LastOfItsKey(i) ==
    \A j \in (i + 1)..Len(LastTokens) :
        LooksLikeFlag(LastTokens[j]) => FlagKey(LastTokens[j]) # FlagKey(LastTokens[i])

\* C13: for prefixed text the name is the first shell token after the sentinel, the
\* positional arguments are the non-flag tokens in their left-to-right order (a
\* quoted substring is one token), every '--key=value' token gives the keyword
\* entry key -> value split on the first '=', and no token is both a positional
\* and a flag value.
C13_PrefixedParse ==
    Prefixed =>
        /\ last.name = LastTokens[1]
        /\ last.args = ExpectedPositionals
        /\ \A i \in 2..Len(LastTokens) :
              (IsKeyValueFlag(LastTokens[i]) /\ LastOfItsKey(i)) =>
                  HasKeyword(FlagKey(LastTokens[i]), ParseValue(FlagValue(LastTokens[i])))
        /\ last.text = "/spec \"add login\" --template=default" =>
              /\ last.name = "spec"
              /\ last.args = <<StrVal("add login")>>
              /\ last.kwargs = <<[key |-> "template", val |-> StrVal("default")]>>

\* what each scalar literal of CoercionTokens is to be coerced to
ExpectedCoercion(v) ==
    IF v \in {"true", "TRUE"} THEN BoolVal(TRUE)
    ELSE IF v = "False" THEN BoolVal(FALSE)
    ELSE IF v \in {"none", "NULL"} THEN NoneVal
    ELSE IF v = "3" THEN IntVal(3)
    ELSE IF v = "007" THEN IntVal(7)
    ELSE IF v = "+3" THEN IntVal(3)
    ELSE IF v = "1_000" THEN IntVal(1000)
    ELSE IF v \in {"2.5", ".5", "2.5e3"} THEN FloatVal(v)
    ELSE StrVal(v)

\* C14: the coercion applied to every positional and every flag value maps
\* true/false (any case) to booleans, none/null (any case) to null, integer literals
\* without '.' to integers, numeric literals containing '.' to floats and every
\* other token to the unchanged string ('/x --flag=true --n=3 --f=2.5 --s=none'
\* gives flag=true, n=3, f=2.5, s=null).
C14_Coercion ==
    Parsed =>
        /\ \A v \in CoercionTokens \cup {""} :
              /\ (v # "" /\ last.text = "/x " \o v) =>
                    last.args = <<ExpectedCoercion(v)>> /\ last.kwargs = <<>>
              /\ last.text = "/x --k=" \o v =>
                    last.kwargs = <<[key |-> "k", val |-> ExpectedCoercion(v)]>> /\ last.args = <<>>
        /\ last.text = "/x --flag=true --n=3 --f=2.5 --s=none" =>
              last.kwargs = <<[key |-> "flag", val |-> BoolVal(TRUE)], [key |-> "n", val |-> IntVal(3)],
                              [key |-> "f", val |-> FloatVal("2.5")], [key |-> "s", val |-> NoneVal]>>

\* C14 witness: the four flag values of the example were coerced
C14_Witness ==
    /\ Parsed
    /\ last.text = "/x --flag=true --n=3 --f=2.5 --s=none"
    /\ HasKeyword("flag", BoolVal(TRUE))
    /\ HasKeyword("n", IntVal(3))
    /\ HasKeyword("f", FloatVal("2.5"))
    /\ HasKeyword("s", NoneVal)

(***************************************************************************)
(* Properties of listing                                                   *)
(***************************************************************************)
\* the primary names of the entries the registry holds
DistinctPrimaryNames == {heap[Lookup(commands, k)].name : k \in Keys(commands)}

\* C15: list_commands returns no entry more than once and no entry for an alias
\* key (each entry returned is the one stored under its own primary name), so the
\* number of entries returned is at most the number of distinct primary names,
\* however many aliases are registered.
C15_PrimaryOnlyListing ==
    last.op = "list_commands" =>
        /\ \A i, j \in 1..Len(last.listed) : i # j => last.listed[i] # last.listed[j]
        /\ \A i \in 1..Len(last.listed) :
              GetCommand(commands, heap[last.listed[i]].name) = last.listed[i]
        /\ Len(last.listed) <= Cardinality(DistinctPrimaryNames)

\* C15 witness: two entries are listed while three keys, one of them an alias, are registered
C15_Witness ==
    /\ last.op = "list_commands"
    /\ Len(last.listed) = 2
    /\ Cardinality(Keys(commands)) = 3
    /\ \E k \in Keys(commands) : heap[Lookup(commands, k)].name # k

\* the first register_command call that gave name as the primary name (entries
\* are numbered in the order of their registration)
FirstRegistration(name) ==
    CHOOSE r \in 1..Len(heap) :
        /\ heap[r].name = name
        /\ \A q \in 1..(r - 1) : heap[q].name # name

\* C16: list_commands returns the entries in the insertion order of their primary
\* registration: of two listed entries the one listed first has a primary name
\* registered before the other entry was registered (a re-registered name keeps
\* the place of its first registration), also when the name had been an alias key
\* of another entry before.
C16_InsertionOrder ==
    last.op = "list_commands" =>
        \A i, j \in 1..Len(last.listed) :
            i < j => FirstRegistration(heap[last.listed[i]].name) < last.listed[j]

(***************************************************************************)
(* Properties of execute_string on text that holds no invocation           *)
(***************************************************************************)
\* empty, whitespace-only, a lone sentinel, unbalanced quoting
UnparsableTexts == {"", "   ", "/", "/echo \"hi"}

\* C17: a text from which no invocation can be parsed (empty, whitespace-only, a
\* lone sentinel '/', unbalanced quoting) makes execute_string return success=false
\* with an empty command_name, without looking up or invoking a handler and
\* without raising.
C17_UnparsableText ==
    (/\ last.op = "execute_string"
     /\ \/ last.text \in UnparsableTexts
        \/ ParseCommandString(last.text).kind # "parsed") =>
        /\ ~last.raised
        /\ ~last.result.success
        /\ last.result.command_name = ""
        /\ last.stage \in {"parse_none", "parse_raised"}
        /\ last.ref = 0
        /\ last.invoked = 0
        /\ last.call = NoCall

\* C17 witness: echo is registered and '/echo "hi' is rejected for its quoting
C17_Witness ==
    /\ last.op = "execute_string"
    /\ last.text = "/echo \"hi"
    /\ "echo" \in Keys(commands)
    /\ ~last.result.success
    /\ ErrorText = "No closing quotation"

(***************************************************************************)
(* Properties of hidden commands                                           *)
(***************************************************************************)
\* the entries stored under their primary name that are hidden and enabled
HiddenEnabled ==
    {r \in 1..Len(heap) : /\ GetCommand(commands, heap[r].name) = r
                          /\ heap[r].hidden
                          /\ heap[r].enabled}

\* C18: a command registered with hidden=true and left enabled is not returned by
\* list_commands or search_commands called with include_hidden=false nor by
\* get_command_suggestions, yet get_command finds it and executing it by name
\* invokes its handler successfully.
C18_HiddenInvocable ==
    /\ (last.op \in {"list_commands", "search_commands"} /\ ~last.include_hidden) =>
          \A r \in HiddenEnabled : r \notin Range(last.listed)
    /\ last.op = "get_command_suggestions" =>
          \A r \in HiddenEnabled : heap[r].name \notin Range(last.listed)
    /\ (last.op = "register" /\ heap[last.ref].hidden) =>
          GetCommand(commands, last.name) = last.ref /\ last.ref \in HiddenEnabled
    /\ (last.op = "execute_string" /\ last.ref \in HiddenEnabled) =>
          /\ last.invoked = 1
          /\ last.result.success
          /\ last.result.output = StrVal("done")

\* C18 witness: the hidden command tagged "secret" is registered and enabled, and a
\* search for its tag without include_hidden returns nothing
C18_Witness ==
    /\ last.op = "search_commands"
    /\ last.query = "SECRET"
    /\ ~last.include_hidden
    /\ HiddenEnabled # {}
    /\ last.listed = <<>>

(***************************************************************************)
(* Properties of the execution context                                     *)
(***************************************************************************)
\* C19: the execution context given to execute_string is passed through unmodified
\* to the handler: a handler that is invoked receives the caller's context, no key
\* of it changed.
C19_ContextPassedThrough ==
    (last.op = "execute_string" /\ last.invoked = 1) =>
        last.call.hasContext /\ last.call.context = last.ctxIn

(***************************************************************************)
(* Properties of agent dispatch                                            *)
(***************************************************************************)
\* C20: execute_agent never raises and always returns the uniform envelope: the
\* dictionary carries success, agent and timestamp plus exactly one of result
\* (when success is true) or error (when success is false), whether the agent is
\* unknown, its execute returned, or its execute raised.
C20_UniformEnvelope ==
    last.op = "execute_agent" =>
        /\ ~last.raised
        /\ {"success", "agent", "timestamp"} \subseteq DOMAIN last.envelope
        /\ last.envelope.success =>
               "result" \in DOMAIN last.envelope /\ "error" \notin DOMAIN last.envelope
        /\ ~last.envelope.success =>
               "error" \in DOMAIN last.envelope /\ "result" \notin DOMAIN last.envelope

\* C21: once initialize has succeeded, get_agent(n) returns the same cached
\* instance on every call, whatever else is called (a repeated initialize
\* included), until reload_agent(n) succeeds; a successful reload_agent(n) replaces
\* it with a newly constructed instance of the stored class; a reload_agent that
\* fails leaves the cached instance of n and of every other agent unchanged.
ReloadSucceeded(n) == last'.op = "reload_agent" /\ last'.name = n /\ last'.envelope.success

C21_CachedUntilReload ==
    [][ /\ last'.op = "get_agent" => last'.ref = GetAgent(agents, last'.name)
        /\ initialized =>
              \A n \in AgentNames :
                  IF ReloadSucceeded(n)
                     THEN /\ GetAgent(agents', n) \notin DOMAIN instances
                          /\ GetAgent(agents', n) \in DOMAIN instances'
                          /\ instances'[GetAgent(agents', n)]
                                 = NewInstance(Lookup(agent_classes, n))
                     ELSE GetAgent(agents', n) = GetAgent(agents, n) ]_vars

\* a reload_agent failed in the constructor for an agent that has a cached instance
C21_Witness ==
    /\ initialized
    /\ last.op = "reload_agent"
    /\ ~last.envelope.success
    /\ "agent" \in DOMAIN last.envelope
    /\ last.oldRef # 0
    /\ last.ref = last.oldRef

(***************************************************************************)
(* Properties of command discovery                                         *)
(***************************************************************************)
\* C22: discover_commands never raises to its caller, whatever loading the base
\* namespace or one of its sub-modules does, and the list it returns is empty when
\* the base namespace cannot be loaded.
C22_DiscoveryNeverRaises ==
    last.op = "discover_commands" =>
        /\ ~last.raised
        /\ last.stage \in {"missing", "error"} => last.listed = <<>>

\* C23: register_discovered_commands attempts to register every discovered
\* command, a registration that raises not stopping the remaining ones; the count
\* returned is the number of registrations that did not raise, is at most the
\* number discovered, and is the number of entries the call put in the registry.
NewEntries == {ref \in (last.oldRef + 1)..Len(heap) : \E k \in Keys(commands) : Lookup(commands, k) = ref}

C23_RegisteredCount ==
    (last.op \in {"register_discovered_commands", "discover_and_register"} /\ ~last.raised) =>
        /\ [i \in 1..Len(last.attempts) |-> last.attempts[i].name]
              = [i \in 1..Len(discovered_commands) |-> discovered_commands[i].key]
        /\ last.count = Cardinality({i \in 1..Len(last.attempts) : ~last.attempts[i].raised})
        /\ last.count <= Len(last.listed)
        /\ last.count = Cardinality(NewEntries)

(***************************************************************************)
(* Properties of suggestions                                               *)
(***************************************************************************)
\* the primary names of the entries that are neither hidden nor disabled
SuggestibleNames ==
    {n \in Keys(commands) : /\ heap[Lookup(commands, n)].name = n
                            /\ ~heap[Lookup(commands, n)].hidden
                            /\ heap[Lookup(commands, n)].enabled}

\* the names of list_commands() in the order it returns them
ListingOrder ==
    Local(ListCommands(commands, heap, "", FALSE, FALSE),
          LAMBDA listed : [i \in 1..Len(listed) |-> heap[listed[i]].name])

\* the suggestions are exactly names, each once and in listing order
SuggestedExactly(names) ==
    /\ Range(last.listed) = names
    /\ \A i, j \in 1..Len(last.listed) : i # j => last.listed[i] # last.listed[j]
    /\ \A i, j \in 1..Len(last.listed) :
          i < j => \E a, b \in 1..Len(ListingOrder) :
                       a < b /\ ListingOrder[a] = last.listed[i] /\ ListingOrder[b] = last.listed[j]

\* C24 as stated: for every string p, get_command_suggestions(p) returns exactly
\* the primary names starting with p of the non-hidden, enabled entries, each once
\* and in listing order.
C24_SuggestionsAsStated ==
    last.op = "get_command_suggestions" =>
        SuggestedExactly({n \in SuggestibleNames : StartsWith(n, last.query)})

\* C24 amended: for every non-empty string p, get_command_suggestions(p) returns
\* exactly the primary names starting with p of the non-hidden, enabled entries,
\* each once, in listing order, and never an alias name; for the empty string it
\* returns the empty list.
C24_Suggestions ==
    last.op = "get_command_suggestions" =>
        IF last.query = "" THEN last.listed = <<>>
        ELSE SuggestedExactly({n \in SuggestibleNames : StartsWith(n, last.query)})

\* C24 witness: two names are suggested for a proper prefix while an alias key
\* and a hidden entry starting with the same prefix are registered
C24_Witness ==
    /\ last.op = "get_command_suggestions"
    /\ last.query = "bu"
    /\ Len(last.listed) = 2
    /\ "bu" \in Keys(commands)
    /\ \E n \in Keys(commands) : heap[Lookup(commands, n)].hidden

(***************************************************************************)
(* Properties of the order of the invocation checks                        *)
(***************************************************************************)
\* the last operation is an execution that got as far as looking up a name
Invocation == ExecOp /\ last.stage \notin {"parse_none", "parse_raised"}

UnknownName == last.ref = 0

EntryDisabled == ~heap[last.ref].enabled

ProjectMissing == heap[last.ref].requires_project /\ ~ProjectPathGiven(last.ctxIn)

\* the arguments fail validation (execute_command makes no validation)
ArgumentsInvalid ==
    last.op = "execute_string" /\ ~ValidateCommandArguments(LastParsed, heap[last.ref]).valid

Reports(text) == Failed /\ Contains(ErrorText, text) /\ last.invoked = 0

\* C25: the invocation checks are made in the order unknown name, disabled,
\* missing project context, argument validation, and the first one that fails is
\* the one reported; the handler runs exactly when all of them pass, and the
\* exception of a handler is reported with its message preserved.
C25_CheckOrder ==
    Invocation =>
        IF UnknownName THEN Reports("not found")
        ELSE IF EntryDisabled THEN Reports("is disabled")
        ELSE IF ProjectMissing THEN Reports("requires a project context")
        ELSE IF ArgumentsInvalid THEN Reports("Required parameter")
        ELSE /\ last.invoked = 1
             /\ last.handlerRaised => (Failed /\ Contains(ErrorText, last.handlerMessage))
             /\ ~last.handlerRaised => last.result.success

\* C25 witness: a disabled command that requires a project and a parameter is
\* invoked without either and the result reports only that it is disabled
C25_Witness ==
    /\ Invocation /\ last.op = "execute_string"
    /\ ~UnknownName /\ EntryDisabled /\ ProjectMissing /\ ArgumentsInvalid
    /\ Contains(ErrorText, "is disabled")
    /\ ~Contains(ErrorText, "project context")

(***************************************************************************)
(* Properties of the frame of unregister_command                           *)
(***************************************************************************)
\* the entries list_commands returns when nothing is filtered out
ListedAll(cmds, hp) == Range(ListCommands(cmds, hp, "", TRUE, TRUE))

\* C28: unregister_command(n) removes only keys that resolved to the entry n
\* resolved to: every key of another entry still resolves to that entry after the
\* call and every other listed entry is still listed, also when the removed entry
\* declared an alias equal to the primary name of another entry; and
\* unregister_command of an unknown name returns False and changes nothing.
C28_UnregisterFrame ==
    [][last'.op = "unregister" =>
          IF last'.name \in Keys(commands)
             THEN /\ last'.ok
                  /\ \A k \in Keys(commands) \ KeysOf(commands, Lookup(commands, last'.name)) :
                        GetCommand(commands', k) = GetCommand(commands, k)
                  /\ ListedAll(commands, heap) \ {Lookup(commands, last'.name)}
                        \subseteq ListedAll(commands', heap')
             ELSE /\ ~last'.ok
                  /\ UNCHANGED registryVars]_vars

(***************************************************************************)
(* Properties of the category index                                        *)
(***************************************************************************)
\* the number of positions of the list l holding x
CountIn(l, x) == Cardinality({i \in 1..Len(l) : l[i] = x})

\* the sum of the values of a dictionary of counts
RECURSIVE SumCounts(_)
SumCounts(d) == IF Len(d) = 0 THEN 0 ELSE Head(d).val + SumCounts(Tail(d))

\* C29: in every reachable state the category index agrees with the entries: a
\* name is in a category list exactly when it is a primary name whose current
\* entry has that category, and then once, so the commands_per_category counts of
\* get_stats sum to the number of primary entries.
C29_CategoryIndexAgrees ==
    /\ \A n \in Names : \A c \in Keys(categories) :
          CountIn(Lookup(categories, c), n) =
             IF n \in PrimaryKeys /\ heap[Lookup(commands, n)].category = c THEN 1 ELSE 0
    /\ \A n \in PrimaryKeys : heap[Lookup(commands, n)].category \in Keys(categories)
    /\ SumCounts(GetStats(commands, categories, heap).commands_per_category)
          = Cardinality(PrimaryKeys)

(***************************************************************************)
(* Properties of the integration layer                                     *)
(***************************************************************************)
\* C26: when initialize() returns status 'success' with OpenCode available, the
\* schema is registered and the hooks validate_config, validate_project_config
\* and get_schema_info are present; initialize() of an initialized integration,
\* so a second one after a success, returns 'already_initialized'; and no
\* operation unregisters the schema or removes a hook.
C26_SchemaRegistered ==
    [][/\ (last'.op = "integration_initialize" /\ last'.envelope.status = "success") =>
             /\ last'.available
             /\ schema_registered'
             /\ HookNames \subseteq validation_hooks'
       /\ (last'.op = "integration_initialize" /\ integration_initialized) =>
             last'.envelope.status = "already_initialized"
       /\ schema_registered => schema_registered'
       /\ validation_hooks \subseteq validation_hooks']_vars

\* C26 witness: initialize() has just returned 'success' with OpenCode available,
\* having mapped an agent, and the schema is registered with its three hooks
C26_Witness ==
    /\ last.op = "integration_initialize"
    /\ last.available
    /\ last.envelope.status = "success"
    /\ last.envelope.opencode_agents > 0
    /\ schema_registered
    /\ validation_hooks = HookNames

\* the configuration of the last validation satisfies the project schema
SatisfiesProjectSchema == SchemaViolation(last.config, SchemaFor(schema, "project")) = ""

\* C27: validate_project_config(path, config) returns valid = true with an empty
\* issue list whenever path is an existing directory and config satisfies the
\* project schema, and valid = false with at least one issue when config
\* violates the schema.
C27_ProjectConfigValidation ==
    last.op = "validate_project_config" =>
        /\ (last.project.exists /\ SatisfiesProjectSchema) =>
              (last.envelope.valid /\ last.envelope.issues = <<>>)
        /\ ~SatisfiesProjectSchema =>
              (~last.envelope.valid /\ Len(last.envelope.issues) >= 1)

\* the last operation executed an agent by name and answered that there is no
\* such agent
AnswersNotFound ==
    /\ last.op \in {"execute_agent", "execute_opencode_agent"}
    /\ ~last.envelope.success
    /\ Contains(last.envelope.error, "not found")

\* the names list_agents() reports
ListedAgentNames == {agent_metadata[i].val.name : i \in 1..Len(agent_metadata)}

\* C30: for every agent discovered by AgentRegistry.initialize, the name reported
\* in its metadata, which list_agents lists and get_opencode_agents uses as key,
\* is the key under which its class is stored, so execute_agent and
\* execute_opencode_agent on a listed name never answer 'not found'.
C30_ListedNamesAreKeys ==
    /\ \A i \in 1..Len(agent_metadata) :
          /\ agent_metadata[i].val.name = agent_metadata[i].key
          /\ agent_metadata[i].val.name \in Keys(agent_classes)
    /\ Keys(opencode_agents) \subseteq Keys(agent_classes)
    /\ (AnswersNotFound /\ last.name \in ListedAgentNames) => FALSE

====
